---- MODULE Spec2Model ----
(***************************************************************************)
(* Verification model of the recursive-unpacking core of rar2fs:           *)
(*   - path sanitization            (recursion.c, sanitize_nested_path)    *)
(*   - the recursion context        (recursion.c, push/pop/size/cycle)     *)
(*   - directory list building      (dirlist.c, dir_entry_add/close)       *)
(*   - in-memory extraction buffer  (recursion.c, extract_to_memory_cb)    *)
(* Each subsystem has its own specification over the shared variables; a   *)
(* specification leaves the variables of the other subsystems untouched.   *)
(***************************************************************************)
EXTENDS Integers, Sequences, FiniteSets, TLC

VARIABLES
    path,        \* sanitize_nested_path: the argument of the last call
    sanitized,   \* sanitize_nested_path: the value returned by the call
    pathDone,    \* TRUE once sanitize_nested_path has returned
    optdb,       \* --recursion-depth and --max-unpack-size as given
    depth,               \* struct recursion_context
    max_depth,
    visited,             \*   visited[0..MAX_RECURSION_DEPTH-1]
    archive_chain,       \*   archive_chain[0..MAX_RECURSION_DEPTH-1]
    total_unpacked_size,
    max_unpacked_size,
    ctxCall,     \* the last call on the context: function, arguments, return
    lastPopped,  \* the fingerprint removed by the last recursion_pop_archive
    pushCalls,   \* number of recursion_push_archive calls made on a chain
    uncheckedPush, \* TRUE once an archive was pushed without a passed cycle check
    pushed,      \* the stack before each successful push that is not yet popped
    dirList,     \* the entries of the nodes that follow the list head, in order
    dirCall,     \* the last call on the list: function, arguments, return
    bufData,     \* struct extract_buffer: the bytes of the allocation at data
    bufSize,
    bufCapacity,
    bufError,
    bufCall,     \* the last callback: message, chunk, return value
    bufAccepted, \* the chunks for which the callback returned 1, concatenated
    config_mutex, \* rarconfig.c: the thread that holds config_mutex, or NoThread
    ht,          \* rarconfig.c: the table handle, NULL_ht or the table's number
    cfgTable,    \* the sections that have an entry in the table ht points to
    cfgCreated,  \* number of tables hashtable_init has created so far
    cfgThread,   \* per thread: the rarconfig function it is in and its locals
    cfgFreedRead, \* TRUE once a getter has read a field of a freed entry
    aliases,     \* struct config_entry: aliases[0..n_aliases-1] of one entry
    aliasCall,   \* the last alias line handled or alias looked up
    rar_data,    \* compute_archive_fingerprint: the bytes of the archive
    rar_mtime,   \* compute_archive_fingerprint: the mtime argument
    fpResult,    \* compute_archive_fingerprint: the fingerprint returned
    fpDone,      \* TRUE once compute_archive_fingerprint has returned
    tmpFile,     \* the file at out_path: whether it exists, and its bytes
    tmpFd,       \* the descriptor mkstemp returned: "none", "open", "closed"
    tmpCall,     \* the call of write_buffer_to_tempfile: inputs and return
    ioMode,      \* mode of the I/O handle: "none", "raw" or "piped"
    ioState,     \* state of the I/O handle (none, init, streaming, ...)
    ioOffset,    \* logical offset of the handle
    ioError,     \* the error recorded when the handle was poisoned
    ioRestarts,  \* restarts of the producer counted on the handle
    ioCall,      \* the last callback on the handle: inputs and results
    prodState,   \* producer task: "none", "running" or "exited"
    prodCancel,  \* cancellation of the producer has been requested
    prodPos,     \* bytes of the member the producer has written so far
    pipe,        \* bytes in the pipe, oldest first
    pipePos,     \* bytes the consumer has taken from the current producer
    pipeOpen,    \* the consumer holds the read end of the pipe
    heap,        \* the dir_entry_list nodes: state, next pointer and entry
    listRoot,    \* the heads of list1, list2 and of the list dir_list_dup made
    listCall,    \* the last dirlist call on these lists and what it met
    cfgLine,     \* the property line of the section rarconfig_init reads
    lineEntry,   \* mask and save_eof of the section's config entry
    lineCall     \* what rarconfig_init and the getter did for this line

pathVars == <<path, sanitized, pathDone>>
ctxVars == <<optdb, depth, max_depth, visited, archive_chain, total_unpacked_size,
             max_unpacked_size, ctxCall, lastPopped, pushCalls,
             uncheckedPush, pushed>>
dirVars == <<dirList, dirCall>>
bufVars == <<bufData, bufSize, bufCapacity, bufError, bufCall, bufAccepted>>
cfgVars == <<config_mutex, ht, cfgTable, cfgCreated, cfgThread, cfgFreedRead, aliases,
             aliasCall>>
fpVars == <<rar_data, rar_mtime, fpResult, fpDone>>
tmpVars == <<tmpFile, tmpFd, tmpCall>>
ioVars == <<ioMode, ioState, ioOffset, ioError, ioRestarts, ioCall,
            prodState, prodCancel, prodPos, pipe, pipePos, pipeOpen>>
listVars == <<heap, listRoot, listCall>>
lineVars == <<cfgLine, lineEntry, lineCall>>
vars == <<path, sanitized, pathDone, optdb, depth, max_depth, visited, archive_chain,
          total_unpacked_size, max_unpacked_size, ctxCall, lastPopped,
          pushCalls, uncheckedPush, pushed, dirList, dirCall, bufData, bufSize,
          bufCapacity, bufError, bufCall, bufAccepted, config_mutex, ht,
          cfgTable, cfgCreated, cfgThread, cfgFreedRead, aliases, aliasCall,
          rar_data, rar_mtime, fpResult, fpDone, tmpFile, tmpFd, tmpCall,
          ioMode, ioState, ioOffset, ioError, ioRestarts, ioCall,
          prodState, prodCancel, prodPos, pipe, pipePos, pipeOpen,
          heap, listRoot, listCall, cfgLine, lineEntry, lineCall>>

(***************************************************************************)
(* C strings are sequences of byte values 1..255; index Len(s)+1 holds the *)
(* terminating NUL.  A byte string never contains NUL, so <<0>> is free to *)
(* stand for the NULL pointer.                                             *)
(***************************************************************************)
NULL == <<0>>

NUL == 0
DOT == 46
SLASH == 47
COLON == 58
BACKSLASH == 92
LETTER_A == 97

\* s[i] in C terms (0-based index i-1), the terminator included
At(s, i) == IF i <= Len(s) THEN s[i] ELSE NUL

MAX_NESTED_PATH_LENGTH == 4096

\* Longest input path the model enumerates
MaxPathLen == 6

\* Bytes the enumerated paths are made of
PathBytes == {DOT, SLASH, BACKSLASH, COLON, LETTER_A}

isalpha(c) == (c >= 65 /\ c <= 90) \/ (c >= 97 /\ c <= 122)

is_absolute_path(p) ==
    IF Len(p) = 0 THEN FALSE
    ELSE p[1] = SLASH \/ p[1] = BACKSLASH

is_windows_absolute_path(p) ==
    IF Len(p) < 3 THEN FALSE
    ELSE /\ isalpha(p[1])
         /\ p[2] = COLON
         /\ (p[3] = BACKSLASH \/ p[3] = SLASH)

\* The copy loop of strip_dotdot_components: src is at index i, dst holds acc
RECURSIVE StripLoop(_, _, _)
StripLoop(s, i, acc) ==
    IF At(s, i) = NUL THEN acc
    ELSE IF /\ At(s, i) = DOT
            /\ At(s, i + 1) = DOT
            /\ At(s, i + 2) \in {SLASH, BACKSLASH, NUL}
         THEN StripLoop(s, IF At(s, i + 2) \in {SLASH, BACKSLASH}
                           THEN i + 3 ELSE i + 2, acc)
         ELSE StripLoop(s, i + 1, Append(acc, s[i]))

strip_dotdot_components(p) ==
    LET result == StripLoop(p, 1, <<>>)
    IN  IF /\ At(result, 1) = DOT
           /\ At(result, 2) = DOT
           /\ At(result, 3) \in {SLASH, NUL}
        THEN NULL
        ELSE result

\* is_valid_utf8, the byte tests written as the ranges the bit masks select
RECURSIVE Utf8Loop(_, _)
Utf8Loop(s, i) ==
    LET b0 == At(s, i)
        b1 == At(s, i + 1)
        b2 == At(s, i + 2)
        b3 == At(s, i + 3)
        Cont(b) == b >= 128 /\ b < 192          \* (b & 0xC0) == 0x80
    IN  IF b0 = NUL THEN TRUE
        ELSE IF b0 < 128 THEN Utf8Loop(s, i + 1)
        ELSE IF b0 >= 192 /\ b0 < 224 THEN      \* (b0 & 0xE0) == 0xC0
            IF ~Cont(b1) THEN FALSE
            ELSE IF b0 \in {192, 193} THEN FALSE \* (b0 & 0xFE) == 0xC0
            ELSE Utf8Loop(s, i + 2)
        ELSE IF b0 >= 224 /\ b0 < 240 THEN      \* (b0 & 0xF0) == 0xE0
            IF ~Cont(b1) THEN FALSE
            ELSE IF ~Cont(b2) THEN FALSE
            ELSE IF b0 = 224 /\ b1 >= 128 /\ b1 < 160 THEN FALSE
            ELSE Utf8Loop(s, i + 3)
        ELSE IF b0 >= 240 /\ b0 < 248 THEN      \* (b0 & 0xF8) == 0xF0
            IF ~Cont(b1) THEN FALSE
            ELSE IF ~Cont(b2) THEN FALSE
            ELSE IF ~Cont(b3) THEN FALSE
            ELSE IF b0 = 240 /\ b1 >= 128 /\ b1 < 144 THEN FALSE
            ELSE IF b0 > 244 THEN FALSE
            ELSE Utf8Loop(s, i + 4)
        ELSE FALSE

is_valid_utf8(p) == Utf8Loop(p, 1)

\* Variant: the backslashes are left as they are
Normalize_kept(p) == p

\* Rule 4: every backslash becomes a forward slash
Normalize(p) == [i \in 1..Len(p) |-> IF p[i] = BACKSLASH THEN SLASH ELSE p[i]]

sanitize_nested_path(p) ==
    IF Len(p) = 0 THEN NULL
    ELSE IF Len(p) > MAX_NESTED_PATH_LENGTH THEN NULL
    ELSE IF is_absolute_path(p) THEN NULL
    ELSE IF is_windows_absolute_path(p) THEN NULL
    ELSE IF ~is_valid_utf8(p) THEN NULL
    ELSE LET stripped == strip_dotdot_components(Normalize(p))
         IN  IF stripped = NULL THEN NULL
             ELSE IF Len(stripped) = 0 THEN NULL
             ELSE stripped

\* All byte strings of length 0..n over PathBytes
RECURSIVE StringsUpTo(_)
StringsUpTo(n) ==
    IF n = 0 THEN {<<>>}
    ELSE LET shorter == StringsUpTo(n - 1)
         IN  shorter \cup {Append(s, b) : s \in {t \in shorter : Len(t) = n - 1},
                                          b \in PathBytes}

\* The caller holds an arbitrary member name; nothing has been returned yet
PathInit ==
    /\ path \in StringsUpTo(MaxPathLen)
    /\ sanitized = NULL
    /\ pathDone = FALSE

\* No member name is being sanitized
PathIdle ==
    /\ path = <<>>
    /\ sanitized = NULL
    /\ pathDone = FALSE

\* The call of sanitize_nested_path on the member name
SanitizeCall ==
    /\ ~pathDone
    /\ sanitized' = sanitize_nested_path(path)
    /\ pathDone' = TRUE
    /\ UNCHANGED path

(***************************************************************************)
(* The recursion context (struct recursion_context) and its operations.    *)
(* off_t is a signed integer of OFF_T_BITS bits; sizes are counted in GiB, *)
(* so the 10 GiB default limit is 10.                                      *)
(***************************************************************************)
MAX_RECURSION_DEPTH == 10
DEFAULT_MAX_RECURSION_DEPTH == 5
DEFAULT_MAX_UNPACKED_SIZE == 10

EINVAL == 22
ELOOP == 40
ENOMEM == 12
EFBIG == 27

\* Width of off_t in the model
OFF_T_BITS == 5

OFF_T_MAX == 2 ^ (OFF_T_BITS - 1) - 1
OFF_T_MIN == -(2 ^ (OFF_T_BITS - 1))

\* Two's-complement result of an off_t computation
OffWrap(x) == ((x - OFF_T_MIN) % (2 ^ OFF_T_BITS)) + OFF_T_MIN

Slots == 0..(MAX_RECURSION_DEPTH - 1)

Fingerprint(h, s, m) == [hash |-> h, size |-> s, mtime |-> m]

\* struct archive_fingerprint fp = {0}
ZeroFp == Fingerprint(0, 0, 0)

(***************************************************************************)
(* The archive fingerprint.  uint64_t has HASH_BITS bits and the FNV       *)
(* constants are the low bits of the 64-bit ones; a fingerprint chunk is   *)
(* FINGERPRINT_CHUNK_SIZE bytes, scaled from 4096 to 2.                    *)
(***************************************************************************)
FNV_64_PRIME == 435
FNV_64_OFFSET_BASIS == 8997
FINGERPRINT_CHUNK_SIZE == 2

\* Width of uint64_t in the model
HASH_BITS == 16

HashWrap(x) == x % (2 ^ HASH_BITS)

\* a ^ b on unsigned values
RECURSIVE Xor(_, _)
Xor(a, b) ==
    IF a = 0 THEN b
    ELSE IF b = 0 THEN a
    ELSE (((a % 2) + (b % 2)) % 2) + 2 * Xor(a \div 2, b \div 2)

\* Variant (FNV-1): multiply first, then xor
FnvStep_multiplyFirst(hash, byte) == Xor(HashWrap(hash * FNV_64_PRIME), byte)

\* "hash ^= p[i]; hash *= FNV_64_PRIME;"
FnvStep(hash, byte) == HashWrap(Xor(hash, byte) * FNV_64_PRIME)

\* The loop of fnv1a_hash_64 from index i on
RECURSIVE FnvLoop(_, _, _)
FnvLoop(data, i, hash) ==
    IF i < Len(data)
    THEN FnvLoop(data, i + 1, FnvStep(hash, data[i + 1]))
    ELSE hash

fnv1a_hash_64(data) == FnvLoop(data, 0, FNV_64_OFFSET_BASIS)

\* sizeof(uint64_t)
SizeofHash == (HASH_BITS + 7) \div 8

\* The bytes of a uint64_t in memory, lowest byte first
BytesOf(x) == [k \in 1..SizeofHash |-> (x \div (256 ^ (k - 1))) % 256]

\* Variant: the first hash covers the whole archive
compute_archive_fingerprint_wholeArchive(data, mtime) ==
    LET rar_size == Len(data)
        hash1 == fnv1a_hash_64(data)
        hash2 == IF rar_size > FINGERPRINT_CHUNK_SIZE
                 THEN fnv1a_hash_64(SubSeq(data,
                                           rar_size - FINGERPRINT_CHUNK_SIZE + 1,
                                           rar_size))
                 ELSE 0
        combined == Xor(hash1, hash2)
    IN  IF rar_size = 0 THEN ZeroFp
        ELSE Fingerprint(fnv1a_hash_64(BytesOf(combined)), rar_size, mtime)

\* compute_archive_fingerprint(rar_data, rar_size, mtime); rar_size is the
\* length of data
compute_archive_fingerprint(data, mtime) ==
    LET rar_size == Len(data)
        first_chunk_size == IF rar_size < FINGERPRINT_CHUNK_SIZE
                            THEN rar_size ELSE FINGERPRINT_CHUNK_SIZE
        hash1 == fnv1a_hash_64(SubSeq(data, 1, first_chunk_size))
        hash2 == IF rar_size > FINGERPRINT_CHUNK_SIZE
                 THEN fnv1a_hash_64(SubSeq(data,
                                           rar_size - FINGERPRINT_CHUNK_SIZE + 1,
                                           rar_size))
                 ELSE 0
        combined == Xor(hash1, hash2)
    IN  IF rar_size = 0 THEN ZeroFp
        ELSE Fingerprint(fnv1a_hash_64(BytesOf(combined)), rar_size, mtime)

\* No fingerprint is being computed
FpIdle ==
    /\ rar_data = <<>>
    /\ rar_mtime = 0
    /\ fpResult = ZeroFp
    /\ fpDone = FALSE

\* One call of compute_archive_fingerprint
FingerprintCall ==
    /\ ~fpDone
    /\ fpResult' = compute_archive_fingerprint(rar_data, rar_mtime)
    /\ fpDone' = TRUE
    /\ UNCHANGED <<rar_data, rar_mtime>>

\* A command-line option that was not given
Unset == [set |-> FALSE, val |-> 0]

Given(v) == [set |-> TRUE, val |-> v]

\* The record of a call: function name, fingerprint and size arguments,
\* return value, and the visited[]/archive_chain[] index it wrote (-1: none)
Call(f, fp, sz, r, w) == [fn |-> f, fp |-> fp, size |-> sz, ret |-> r, wrote |-> w]

\* memset(ctx, 0, sizeof(*ctx)): the context before recursion_context_init
CtxIdle ==
    /\ optdb = [depth |-> Unset, size |-> Unset]
    /\ depth = 0
    /\ max_depth = 0
    /\ visited = [i \in Slots |-> ZeroFp]
    /\ archive_chain = [i \in Slots |-> NULL]
    /\ total_unpacked_size = 0
    /\ max_unpacked_size = 0
    /\ ctxCall = Call("none", ZeroFp, 0, 0, -1)
    /\ lastPopped = ZeroFp
    /\ pushCalls = 0
    /\ uncheckedPush = FALSE
    /\ pushed = <<>>

\* Variant: a given --recursion-depth is taken whatever its value
ConfiguredDepth_unclamped(opt) ==
    IF opt.set THEN opt.val ELSE DEFAULT_MAX_RECURSION_DEPTH

\* max_depth as recursion_context_init derives it from --recursion-depth
ConfiguredDepth(opt) ==
    IF opt.set /\ opt.val >= 1 /\ opt.val <= MAX_RECURSION_DEPTH
    THEN opt.val
    ELSE DEFAULT_MAX_RECURSION_DEPTH

\* max_unpacked_size as recursion_context_init derives it from --max-unpack-size
ConfiguredSize(opt) ==
    IF opt.set /\ opt.val > 0
    THEN opt.val
    ELSE DEFAULT_MAX_UNPACKED_SIZE

\* The context as recursion_context_init leaves it
recursion_context_init(optDepth, optSize) ==
    /\ optdb = [depth |-> optDepth, size |-> optSize]
    /\ depth = 0
    /\ max_depth = ConfiguredDepth(optDepth)
    /\ visited = [i \in Slots |-> ZeroFp]
    /\ archive_chain = [i \in Slots |-> NULL]
    /\ total_unpacked_size = 0
    /\ max_unpacked_size = ConfiguredSize(optSize)
    /\ ctxCall = Call("recursion_context_init", ZeroFp, 0, 0, -1)
    /\ lastPopped = ZeroFp

\* Variant: the scan covers the whole visited[] array, not only the stack
RECURSIVE CycleScan_wholeArray(_, _)
CycleScan_wholeArray(fp, i) ==
    IF i < MAX_RECURSION_DEPTH
    THEN IF /\ visited[i].hash = fp.hash
            /\ visited[i].size = fp.size
            /\ visited[i].mtime = fp.mtime
         THEN TRUE
         ELSE CycleScan_wholeArray(fp, i + 1)
    ELSE FALSE

\* The scan of is_cycle_detected, from index i upwards
RECURSIVE CycleScan(_, _)
CycleScan(fp, i) ==
    IF i < depth
    THEN IF /\ visited[i].hash = fp.hash
            /\ visited[i].size = fp.size
            /\ visited[i].mtime = fp.mtime
         THEN TRUE
         ELSE CycleScan(fp, i + 1)
    ELSE FALSE

\* Variant: the scan starts at the second stack entry
is_cycle_detected_skipFirst(fp) == CycleScan(fp, 1)

is_cycle_detected(fp) == CycleScan(fp, 0)

\* A call of is_cycle_detected; the context is only read
CycleCheck(fp) ==
    /\ ctxCall' = Call("is_cycle_detected", fp, 0,
                       IF is_cycle_detected(fp) THEN 1 ELSE 0, -1)
    /\ UNCHANGED <<depth, max_depth, visited, archive_chain,
                   total_unpacked_size, max_unpacked_size, lastPopped>>

\* "(unknown)", printed for a stack entry without a stored path
UnknownPath == <<40, 117, 110, 107, 110, 111, 119, 110, 41>>

\* The lines "[j] path" that is_cycle_detected prints once it has found
\* the match at index i: j runs from 0 to i
ChainLines(i) ==
    [k \in 1..(i + 1) |-> IF archive_chain[k - 1] # NULL
                          THEN archive_chain[k - 1]
                          ELSE UnknownPath]

\* The "Archive chain:" diagnostic of is_cycle_detected(ctx, fp), empty
\* when no cycle is found; the scan is at index i
RECURSIVE CycleLog(_, _)
CycleLog(fp, i) ==
    IF i < depth
    THEN IF /\ visited[i].hash = fp.hash
            /\ visited[i].size = fp.size
            /\ visited[i].mtime = fp.mtime
         THEN ChainLines(i)
         ELSE CycleLog(fp, i + 1)
    ELSE <<>>

\* Variant: the depth test lets one level too many through
DepthLimitReached_offByOne == depth > max_depth

\* Variant: the depth test is made as if depth had already been incremented
DepthLimitReached_early == depth + 1 >= max_depth

\* "Check depth limit BEFORE incrementing"
DepthLimitReached == depth >= max_depth

AbsoluteLimitReached == depth >= MAX_RECURSION_DEPTH

\* recursion_push_archive(ctx, fp, archive_path); strdup_ok tells whether
\* strdup(archive_path) returns memory
recursion_push_archive(fp, archive_path, strdup_ok) ==
    IF DepthLimitReached \/ AbsoluteLimitReached
    THEN /\ ctxCall' = Call("recursion_push_archive", fp, 0, -ELOOP, -1)
         /\ UNCHANGED <<depth, max_depth, visited, archive_chain,
                        total_unpacked_size, max_unpacked_size, lastPopped>>
    ELSE /\ visited' = [visited EXCEPT ![depth] = fp]
         /\ IF archive_path # NULL
            THEN IF strdup_ok
                 THEN /\ archive_chain' = [archive_chain EXCEPT ![depth] = archive_path]
                      /\ depth' = depth + 1
                      /\ ctxCall' = Call("recursion_push_archive", fp, 0, 0, depth)
                 ELSE /\ archive_chain' = [archive_chain EXCEPT ![depth] = NULL]
                      /\ depth' = depth
                      /\ ctxCall' = Call("recursion_push_archive", fp, 0, -ENOMEM, depth)
            ELSE /\ archive_chain' = archive_chain
                 /\ depth' = depth + 1
                 /\ ctxCall' = Call("recursion_push_archive", fp, 0, 0, depth)
         /\ UNCHANGED <<max_depth, total_unpacked_size, max_unpacked_size,
                        lastPopped>>

\* Variant: the fingerprint of the vacated slot is left in place
recursion_pop_archive_keepsFingerprint ==
    IF depth <= 0
    THEN /\ ctxCall' = Call("recursion_pop_archive", ZeroFp, 0, 0, -1)
         /\ UNCHANGED <<depth, max_depth, visited, archive_chain,
                        total_unpacked_size, max_unpacked_size, lastPopped>>
    ELSE /\ depth' = depth - 1
         /\ archive_chain' = [archive_chain EXCEPT ![depth - 1] = NULL]
         /\ lastPopped' = visited[depth - 1]
         /\ ctxCall' = Call("recursion_pop_archive", ZeroFp, 0, 0, depth - 1)
         /\ UNCHANGED <<visited, max_depth, total_unpacked_size, max_unpacked_size>>

\* recursion_pop_archive(ctx)
recursion_pop_archive ==
    IF depth <= 0
    THEN /\ ctxCall' = Call("recursion_pop_archive", ZeroFp, 0, 0, -1)
         /\ UNCHANGED <<depth, max_depth, visited, archive_chain,
                        total_unpacked_size, max_unpacked_size, lastPopped>>
    ELSE /\ depth' = depth - 1
         /\ visited' = [visited EXCEPT ![depth - 1] = ZeroFp]
         /\ archive_chain' = [archive_chain EXCEPT ![depth - 1] = NULL]
         /\ lastPopped' = visited[depth - 1]
         /\ ctxCall' = Call("recursion_pop_archive", ZeroFp, 0, 0, depth - 1)
         /\ UNCHANGED <<max_depth, total_unpacked_size, max_unpacked_size>>

\* Variant: the limit test adds first, so the off_t sum can wrap around
SizeLimitExceeded_wrapping(archive_size) ==
    OffWrap(total_unpacked_size + archive_size) > max_unpacked_size

\* "Check for overflow before adding"
SizeLimitExceeded(archive_size) ==
    total_unpacked_size > OffWrap(max_unpacked_size - archive_size)

\* check_unpack_size_limit(ctx, archive_size)
check_unpack_size_limit(archive_size) ==
    /\ IF archive_size < 0
       THEN /\ ctxCall' = Call("check_unpack_size_limit", ZeroFp, archive_size,
                               -EINVAL, -1)
            /\ UNCHANGED total_unpacked_size
       ELSE IF SizeLimitExceeded(archive_size)
       THEN /\ ctxCall' = Call("check_unpack_size_limit", ZeroFp, archive_size,
                               -EFBIG, -1)
            /\ UNCHANGED total_unpacked_size
       ELSE /\ total_unpacked_size' = OffWrap(total_unpacked_size + archive_size)
            /\ ctxCall' = Call("check_unpack_size_limit", ZeroFp, archive_size,
                               0, -1)
    /\ UNCHANGED <<depth, max_depth, visited, archive_chain, max_unpacked_size,
                   lastPopped>>

(***************************************************************************)
(* Directory lists (dirlist.c).  A list is its head followed by nodes;     *)
(* node k is the k-th node after the head and dirList[k] is its entry.     *)
(* swap exchanges the entries of two nodes, so a node keeps its place and  *)
(* changes its content.  Node 0 stands for the head.                       *)
(***************************************************************************)
DIR_E_NRM == 0
DIR_E_RAR == 1

\* A node pointer that is NULL
NoNode == -1

HeadNode == 0

\* get_hash(key, 0): some fixed function of the name; this one lets
\* different names collide
get_hash(key) == Len(key)

\* Sign of strcmp(a, b), comparing from byte i on
RECURSIVE StrcmpFrom(_, _, _)
StrcmpFrom(a, b, i) ==
    IF At(a, i) # At(b, i) THEN (IF At(a, i) < At(b, i) THEN -1 ELSE 1)
    ELSE IF At(a, i) = NUL THEN 0
    ELSE StrcmpFrom(a, b, i + 1)

strcmp(a, b) == StrcmpFrom(a, b, 1)

\* What add_entry stores in a new node
add_entry(key, st, type, hash) ==
    [name |-> key, hash |-> hash, st |-> st, type |-> type, valid |-> 1]

DirCallRec(f, l, key, st, type, r) ==
    [fn |-> f, l |-> l, key |-> key, st |-> st, type |-> type, ret |-> r]

\* dir_list_open(root)
dir_list_open ==
    /\ dirList = <<>>
    /\ dirCall = DirCallRec("dir_list_open", HeadNode, <<>>, 0, 0, NoNode)

\* The search loop of dir_entry_add from node k on: the first node whose
\* hash and name match, or NoNode
RECURSIVE FindFrom(_, _, _, _)
FindFrom(list, k, key, hash) ==
    IF k > Len(list) THEN NoNode
    ELSE IF hash = list[k].hash /\ strcmp(key, list[k].name) = 0
         THEN k
         ELSE FindFrom(list, k + 1, key, hash)

\* Variant: the node after the head is skipped as well
SearchStart_skipFirst(l) == IF l = HeadNode THEN 2 ELSE l

\* "if (l->entry.head_flag == DIR_LIST_HEAD_) ... l = l->next": the search
\* starts at the node after the head, or at the node given
SearchStart(l) == IF l = HeadNode THEN 1 ELSE l

\* dir_entry_add(l, key, st, type) with l the head or a node of the list;
\* alloc_ok tells whether malloc and strdup return memory
dir_entry_add(l, key, st, type, alloc_ok) ==
    LET hash == get_hash(key)
        found == IF l = HeadNode /\ Len(dirList) = 0
                 THEN NoNode
                 ELSE FindFrom(dirList, SearchStart(l), key, hash)
    IN  IF found # NoNode
        THEN /\ dirList' = dirList
             /\ dirCall' = DirCallRec("dir_entry_add", l, key, st, type, found)
        ELSE IF alloc_ok
        THEN /\ dirList' = Append(dirList, add_entry(key, st, type, hash))
             /\ dirCall' = DirCallRec("dir_entry_add", l, key, st, type,
                                      Len(dirList) + 1)
        ELSE /\ dirList' = dirList
             /\ dirCall' = DirCallRec("dir_entry_add", l, key, st, type, NoNode)

\* Variant: entries are ordered by name only
swapNeeded_nameOnly(A, B) == strcmp(A.name, B.name) > 0

\* Variant: entries are ordered by type first, then by name
swapNeeded_typeFirst(A, B) ==
    A.type > B.type \/ (A.type = B.type /\ strcmp(A.name, B.name) > 0)

\* The test of swap(A, B): A sorts after B by (name, type)
swapNeeded(A, B) ==
    LET c == strcmp(A.name, B.name)
    IN  (IF c = 0 THEN (IF A.type > B.type THEN 1 ELSE 0) ELSE c) > 0

\* One pass of the bubble sort from node k on; n counts the swaps
RECURSIVE BubblePass(_, _, _)
BubblePass(list, k, n) ==
    IF k >= Len(list) THEN [list |-> list, n |-> n]
    ELSE IF swapNeeded(list[k], list[k + 1])
         THEN BubblePass([list EXCEPT ![k] = list[k + 1], ![k + 1] = list[k]],
                         k + 1, n + 1)
         ELSE BubblePass(list, k + 1, n)

\* Variant: one pass only, whether or not it swapped
BubbleSort_onePass(list) == BubblePass(list, 1, 0).list

\* do { pass } while (n != 0)
RECURSIVE BubbleSort(_)
BubbleSort(list) ==
    LET pass == BubblePass(list, 1, 0)
    IN  IF pass.n # 0 THEN BubbleSort(pass.list) ELSE pass.list

\* The test of the uniqueness pass on a node and its successor
IsDuplicate(cur, nxt) ==
    /\ (cur.type = DIR_E_NRM \/ cur.hash = nxt.hash)
    /\ strcmp(cur.name, nxt.name) = 0

\* The uniqueness pass from node k on
RECURSIVE MarkDuplicates(_, _)
MarkDuplicates(list, k) ==
    IF k >= Len(list) THEN list
    ELSE IF IsDuplicate(list[k], list[k + 1])
         THEN MarkDuplicates([list EXCEPT ![k + 1].valid = 0], k + 1)
         ELSE MarkDuplicates(list, k + 1)

\* dir_list_close(root)
dir_list_close ==
    /\ dirList' = IF Len(dirList) = 0 THEN dirList
                  ELSE MarkDuplicates(BubbleSort(dirList), 1)
    /\ dirCall' = DirCallRec("dir_list_close", HeadNode, <<>>, 0, 0, NoNode)

\* No list is being built
DirIdle ==
    /\ dirList = <<>>
    /\ dirCall = DirCallRec("none", HeadNode, <<>>, 0, 0, NoNode)

(***************************************************************************)
(* Lists as dir_list_dup, dir_list_append and dir_list_free see them:      *)
(* nodes in memory linked by next pointers.  A node is unused, live or     *)
(* freed; malloc hands out the lowest unused node with its bytes not       *)
(* written, so its next pointer holds whatever was there (nextInit FALSE)  *)
(* until the code stores one.  A name is a pointer to a string: addr 0 is  *)
(* NULL and strdup for a node returns the string at the node's address.    *)
(***************************************************************************)
\* Most entries of a list given to dir_list_dup or dir_list_append
MaxListLen == 2

\* Heads of list1 and list2, their entries, and what one dir_list_dup and
\* one dir_list_append allocate
MaxNodes == 3 + 4 * MaxListLen

NodeIds == 1..MaxNodes

\* The heads of list1 and list2 are the first two nodes in memory
List1Head == HeadNode + 1

List2Head == List1Head + 1

\* The result of dir_list_dup before it was called: neither NULL nor a node
NotCalled == NoNode - 1

NullName == [addr |-> 0, str |-> <<>>]

BlankEntry == [name |-> NullName, hash |-> 0, type |-> 0, valid |-> 0, st |-> 0]

UnusedNode ==
    [state |-> "unused", next |-> NoNode, nextInit |-> FALSE, entry |-> BlankEntry]

\* A head after dir_list_open: next and name are NULL
OpenedHead ==
    [state |-> "live", next |-> NoNode, nextInit |-> TRUE, entry |-> BlankEntry]

ListCallRec(f, r, failAt, uninit, bad) ==
    [fn |-> f, ret |-> r, failAt |-> failAt, uninit |-> uninit, bad |-> bad]

\* No list exists
ListIdle ==
    /\ heap = [n \in NodeIds |-> UnusedNode]
    /\ listRoot = [list1 |-> NoNode, list2 |-> NoNode, dup |-> NotCalled,
                   appended |-> FALSE]
    /\ listCall = ListCallRec("none", NoNode, 0, FALSE, FALSE)

\* malloc(sizeof(struct dir_entry_list)) when it succeeds
malloc(h) ==
    CHOOSE n \in NodeIds :
        /\ h[n].state = "unused"
        /\ \A m \in NodeIds : h[m].state = "unused" => n <= m

\* The loop of dir_list_free from node next on.  uninit: a next pointer that
\* was never stored has been followed; bad: the pointer followed does not
\* point to a live node, where the loop is left (what free does with it is
\* undefined).
RECURSIVE FreeLoop(_, _, _)
FreeLoop(h, next, uninit) ==
    IF next = NoNode THEN [heap |-> h, uninit |-> uninit, bad |-> FALSE]
    ELSE IF h[next].state # "live"
         THEN [heap |-> h, uninit |-> uninit, bad |-> TRUE]
         ELSE FreeLoop([h EXCEPT ![next].state = "freed"], h[next].next,
                       uninit \/ ~h[next].nextInit)

dir_list_free(h, root) == FreeLoop(h, h[root].next, ~h[root].nextInit)

\* The error path of dir_list_dup: dir_list_free(root); free(root);
\* return NULL
DupFail(h, root) ==
    LET f == dir_list_free(h, root)
    IN  [heap |-> [f.heap EXCEPT ![root].state = "freed"],
         ret |-> NoNode,
         uninit |-> f.uninit,
         bad |-> f.bad \/ f.heap[root].state # "live"]

\* Variant: the entry is copied as it is, name pointer included
CopiedEntry_sharedName(h, n, next) == h[next].entry

\* What dir_list_dup stores in the fresh node n for the node next of src:
\* the name is a strdup of the source's name, the other fields are assigned
CopiedEntry(h, n, next) ==
    [name  |-> [addr |-> n, str |-> h[next].entry.name.str],
     hash  |-> h[next].entry.hash,
     type  |-> h[next].entry.type,
     valid |-> h[next].entry.valid,
     st    |-> h[next].entry.st]

\* The loop of dir_list_dup: l is the last node of the copy, next the node
\* of src to copy, a the number of the next allocation and failAt the
\* number of the allocation that fails (0: none); garbage is what the next
\* pointer of a fresh node holds.
RECURSIVE DupLoop(_, _, _, _, _, _, _)
DupLoop(h, root, l, next, a, failAt, garbage) ==
    IF next = NoNode
    THEN [heap |-> [h EXCEPT ![l].next = NoNode, ![l].nextInit = TRUE],
          ret |-> root, uninit |-> FALSE, bad |-> FALSE]
    ELSE IF a = failAt
    THEN DupFail([h EXCEPT ![l].next = NoNode, ![l].nextInit = TRUE], root)
    ELSE LET n == malloc(h)
             h1 == [h EXCEPT ![l].next = n, ![l].nextInit = TRUE,
                             ![n] = [state |-> "live", next |-> garbage,
                                     nextInit |-> FALSE, entry |-> BlankEntry]]
         IN  IF a + 1 = failAt
             THEN DupFail(h1, root)
             ELSE DupLoop([h1 EXCEPT ![n].entry = CopiedEntry(h, n, next)],
                          root, n, h[next].next, a + 2, failAt, garbage)

\* dir_list_dup(src): allocation 1 is the root
dir_list_dup(h, src, failAt, garbage) ==
    IF failAt = 1
    THEN [heap |-> h, ret |-> NoNode, uninit |-> FALSE, bad |-> FALSE]
    ELSE LET root == malloc(h)
         IN  DupLoop([h EXCEPT ![root] = OpenedHead], root, root, h[src].next,
                     2, failAt, garbage)

\* The last node of the list from node n on
RECURSIVE LastNode(_, _)
LastNode(h, n) == IF h[n].next = NoNode THEN n ELSE LastNode(h, h[n].next)

\* The copy loop of dir_list_append: memcpy writes the whole node, the next
\* pointer and the name pointer of the node of list2 included
RECURSIVE AppendLoop(_, _, _, _, _)
AppendLoop(h, next1, next2, a, failAt) ==
    IF next2 = NoNode THEN [heap |-> h, ret |-> next1]
    ELSE IF a = failAt
    THEN [heap |-> [h EXCEPT ![next1].next = NoNode], ret |-> NoNode]
    ELSE LET n == malloc(h)
             h1 == [h EXCEPT ![next1].next = n, ![n] = h[next2]]
         IN  IF a + 1 = failAt
             THEN [heap |-> [h1 EXCEPT ![n].entry.name = NullName],
                   ret |-> NoNode]
             ELSE AppendLoop([h1 EXCEPT ![n].entry.name =
                                  [addr |-> n,
                                   str |-> h[next2].entry.name.str]],
                             n, h[next2].next, a + 2, failAt)

\* dir_list_append(list1, list2)
dir_list_append(h, list1, list2, failAt) ==
    AppendLoop(h, LastNode(h, list1), h[list2].next, 1, failAt)

\* The nodes reached from node n by following next pointers, n included
RECURSIVE ReachFrom(_, _, _)
ReachFrom(h, n, seen) ==
    IF n \notin NodeIds \/ n \in seen THEN seen
    ELSE ReachFrom(h, h[n].next, seen \cup {n})

\* The nodes of the list with the given head, the head not included
NodesOf(h, root) ==
    IF root \in NodeIds THEN ReachFrom(h, h[root].next, {}) ELSE {}

\* The head and every node of the list are allocated
IsIntact(h, root) ==
    /\ h[root].state = "live"
    /\ \A n \in NodesOf(h, root) : h[n].state = "live" /\ h[n].nextInit

(***************************************************************************)
(* The extraction buffer (struct extract_buffer) and the UCM_PROCESSDATA   *)
(* callback.  size_t has SIZE_T_BITS bits; sizes are counted in units of   *)
(* 128 MiB, so the 1 GiB cap is 8.  bufData is the allocation at data, one *)
(* cell per unit, Uninit where nothing was written yet; data = NULL is the *)
(* empty allocation.  A chunk is the byte sequence at P1, of length P2.    *)
(***************************************************************************)
UCM_PROCESSDATA == 1
MAX_EXTRACT_CAPACITY == 8

\* Width of size_t in the model
SIZE_T_BITS == 6

SizeWrap(x) == x % (2 ^ SIZE_T_BITS)

Uninit == -1

BufCallRec(msg, chunk, r) == [msg |-> msg, chunk |-> chunk, ret |-> r]

\* The buffer as free_extract_buffer leaves it: data NULL, all fields 0
BufEmpty ==
    /\ bufData = <<>>
    /\ bufSize = 0
    /\ bufCapacity = 0
    /\ bufError = 0
    /\ bufCall = BufCallRec(0, NULL, 0)
    /\ bufAccepted = <<>>

\* Variant: the capacity is doubled without looking at the chunk size
NewCapacity_doubleOnly(chunk_size) == SizeWrap(bufCapacity * 2)

\* "Double capacity (or set to chunk_size if larger)"
NewCapacity(chunk_size) ==
    IF SizeWrap(bufCapacity * 2) < SizeWrap(bufSize + chunk_size)
    THEN SizeWrap(bufSize + chunk_size)
    ELSE SizeWrap(bufCapacity * 2)

\* realloc(data, n): the old bytes up to n, the rest not yet written
Realloc(data, n) ==
    [i \in 1..n |-> IF i <= Len(data) THEN data[i] ELSE Uninit]

\* memcpy(data + size, chunk, chunk_size) on an allocation that holds it
Memcpy(data, size, chunk) ==
    [i \in 1..Len(data) |->
        IF i > size /\ i <= size + Len(chunk) THEN chunk[i - size] ELSE data[i]]

\* Variant: every message is handled as a data chunk
IsDataMessage_any(msg) == TRUE

\* "if (msg != UCM_PROCESSDATA) return 1;" lets only data chunks through
IsDataMessage(msg) == msg = UCM_PROCESSDATA

\* Variant: the empty chunk is looked at before the error flag
extract_to_memory_callback_emptyFirst(msg, chunk, realloc_ok) ==
    LET chunk_size == IF chunk = NULL THEN 0 ELSE SizeWrap(Len(chunk))
        grow == SizeWrap(bufSize + chunk_size) > bufCapacity
        new_capacity == NewCapacity(chunk_size)
        Return(r) == bufCall' = BufCallRec(msg, chunk, r)
    IN  IF ~IsDataMessage(msg)
        THEN /\ Return(1)
             /\ UNCHANGED <<bufData, bufSize, bufCapacity, bufError, bufAccepted>>
        ELSE IF chunk_size = 0 \/ chunk = NULL
        THEN /\ Return(1)
             /\ UNCHANGED <<bufData, bufSize, bufCapacity, bufError, bufAccepted>>
        ELSE IF bufError # 0
        THEN /\ Return(-1)
             /\ UNCHANGED <<bufData, bufSize, bufCapacity, bufError, bufAccepted>>
        ELSE IF grow /\ new_capacity > MAX_EXTRACT_CAPACITY
        THEN /\ bufError' = 1
             /\ Return(-1)
             /\ UNCHANGED <<bufData, bufSize, bufCapacity, bufAccepted>>
        ELSE IF grow /\ ~realloc_ok
        THEN /\ bufError' = 1
             /\ Return(-1)
             /\ UNCHANGED <<bufData, bufSize, bufCapacity, bufAccepted>>
        ELSE /\ bufCapacity' = IF grow THEN new_capacity ELSE bufCapacity
             /\ bufData' = Memcpy(IF grow THEN Realloc(bufData, new_capacity)
                                          ELSE bufData,
                                  bufSize, chunk)
             /\ bufSize' = SizeWrap(bufSize + chunk_size)
             /\ bufAccepted' = bufAccepted \o chunk
             /\ Return(1)
             /\ UNCHANGED bufError

\* extract_to_memory_callback(msg, UserData, P1, P2): chunk is NULL when P1
\* is NULL, else the P2 bytes at P1; realloc_ok tells whether realloc
\* returns memory.  The last conjunct keeps the record of accepted chunks.
extract_to_memory_callback(msg, chunk, realloc_ok) ==
    LET chunk_size == IF chunk = NULL THEN 0 ELSE SizeWrap(Len(chunk))
        grow == SizeWrap(bufSize + chunk_size) > bufCapacity
        new_capacity == NewCapacity(chunk_size)
        Return(r) == bufCall' = BufCallRec(msg, chunk, r)
    IN  IF ~IsDataMessage(msg)
        THEN /\ Return(1)
             /\ UNCHANGED <<bufData, bufSize, bufCapacity, bufError, bufAccepted>>
        ELSE IF bufError # 0
        THEN /\ Return(-1)
             /\ UNCHANGED <<bufData, bufSize, bufCapacity, bufError, bufAccepted>>
        ELSE IF chunk_size = 0 \/ chunk = NULL
        THEN /\ Return(1)
             /\ UNCHANGED <<bufData, bufSize, bufCapacity, bufError, bufAccepted>>
        ELSE IF grow /\ new_capacity > MAX_EXTRACT_CAPACITY
        THEN /\ bufError' = 1
             /\ Return(-1)
             /\ UNCHANGED <<bufData, bufSize, bufCapacity, bufAccepted>>
        ELSE IF grow /\ ~realloc_ok
        THEN /\ bufError' = 1
             /\ Return(-1)
             /\ UNCHANGED <<bufData, bufSize, bufCapacity, bufAccepted>>
        ELSE /\ bufCapacity' = IF grow THEN new_capacity ELSE bufCapacity
             /\ bufData' = Memcpy(IF grow THEN Realloc(bufData, new_capacity)
                                          ELSE bufData,
                                  bufSize, chunk)
             /\ bufSize' = SizeWrap(bufSize + chunk_size)
             /\ bufAccepted' = bufAccepted \o chunk
             /\ Return(1)
             /\ UNCHANGED bufError

\* free_extract_buffer(buffer): the allocation is freed and every field is
\* reset; the record of accepted chunks starts again
free_extract_buffer ==
    /\ bufData' = <<>>
    /\ bufSize' = 0
    /\ bufCapacity' = 0
    /\ bufError' = 0
    /\ bufCall' = BufCallRec(0, NULL, 0)
    /\ bufAccepted' = <<>>

(***************************************************************************)
(* The temporary file of write_buffer_to_tempfile.  close and unlink are   *)
(* taken to succeed, as the code takes them to.                            *)
(***************************************************************************)
EIO == 5
EACCES == 13
EMFILE == 24

NoFile == [exists |-> FALSE, bytes |-> <<>>]

File(bytes) == [exists |-> TRUE, bytes |-> bytes]

\* No temporary file has been asked for
TmpIdle ==
    /\ tmpFile = NoFile
    /\ tmpFd = "none"
    /\ tmpCall = [fn |-> "none", out_path |-> FALSE, mkstemp_errno |-> 0,
                  written |-> 0, ret |-> 0]

\* Variant: after a failed write the file is closed but not unlinked
AfterFailedWrite_kept(partial) == File(partial)

\* "close(fd); unlink(out_path);" after a failed or short write
AfterFailedWrite(partial) == NoFile

\* write_buffer_to_tempfile(buffer, out_path): out_path tells whether the
\* pointer is non-NULL, mkstemp_errno is 0 when mkstemp returns a
\* descriptor, written is what write returns; fsync may fail either way
write_buffer_to_tempfile(out_path, mkstemp_errno, written) ==
    LET Return(r) == tmpCall' = [fn |-> "write_buffer_to_tempfile",
                                 out_path |-> out_path,
                                 mkstemp_errno |-> mkstemp_errno,
                                 written |-> written, ret |-> r]
    IN  IF bufData = <<>> \/ bufSize = 0 \/ ~out_path
        THEN /\ Return(-EINVAL)
             /\ UNCHANGED <<tmpFile, tmpFd>>
        ELSE IF mkstemp_errno # 0
        THEN /\ Return(-mkstemp_errno)
             /\ UNCHANGED <<tmpFile, tmpFd>>
        ELSE IF written # bufSize
        THEN /\ tmpFile' = AfterFailedWrite(
                               SubSeq(bufData, 1, IF written < 0 THEN 0 ELSE written))
             /\ tmpFd' = "closed"
             /\ Return(-EIO)
        ELSE /\ tmpFile' = File(SubSeq(bufData, 1, written))
             /\ tmpFd' = "closed"
             /\ Return(0)

(***************************************************************************)
(* The I/O handle of one open and, in piped mode, its producer task and    *)
(* pipe.  The member is a sequence of bytes; the producer writes it to the *)
(* pipe one byte per chunk, in order, starting at byte 0.                  *)
(***************************************************************************)
\* Bytes in the member
MemberSize == 3

\* Bytes the pipe holds before the producer blocks
PipeCapacity == 2

\* Most bytes one read asks for
MaxRead == 2

\* The seek-length option: forward distance absorbed by draining
SeekLength == 1

\* Most restarts of the producer on one handle
MaxRestarts == 2

Member == [i \in 1..MemberSize |-> 10 + i]

\* Fatal errors a read can meet in each mode
Faults(mode) == IF mode = "raw" THEN {"volume"}
                ELSE {"decoder", "checksum", "volume"}

IoCallRec(op, arg, ret, data, err) ==
    [op |-> op, arg |-> arg, ret |-> ret, data |-> data, err |-> err]

\* No handle is open
IoIdle ==
    /\ ioMode = "none"
    /\ ioState = "none"
    /\ ioOffset = 0
    /\ ioError = "none"
    /\ ioRestarts = 0
    /\ ioCall = IoCallRec("none", 0, 0, <<>>, "none")
    /\ prodState = "none"
    /\ prodCancel = FALSE
    /\ prodPos = 0
    /\ pipe = <<>>
    /\ pipePos = 0
    /\ pipeOpen = FALSE

\* open: the handle is allocated in the mode of the cache entry; in piped
\* mode the producer task is spawned
io_open(mode) ==
    /\ ioState = "none"
    /\ ioMode' = mode
    /\ ioState' = "init"
    /\ ioCall' = IoCallRec("open", 0, 0, <<>>, "none")
    /\ prodState' = IF mode = "piped" THEN "running" ELSE "none"
    /\ pipeOpen' = (mode = "piped")
    /\ UNCHANGED <<ioOffset, ioError, ioRestarts, prodCancel, prodPos, pipe, pipePos>>

\* The producer writes the next chunk to the pipe; it blocks on a full pipe
producer_write ==
    /\ prodState = "running"
    /\ prodPos < MemberSize
    /\ Len(pipe) < PipeCapacity
    /\ pipe' = Append(pipe, Member[prodPos + 1])
    /\ prodPos' = prodPos + 1
    /\ UNCHANGED <<ioMode, ioState, ioOffset, ioError, ioRestarts, ioCall,
                   prodState, prodCancel, pipePos, pipeOpen>>

\* The producer has written the whole member and ends
producer_finish ==
    /\ prodState = "running"
    /\ prodPos = MemberSize
    /\ prodState' = "exited"
    /\ UNCHANGED <<ioMode, ioState, ioOffset, ioError, ioRestarts, ioCall,
                   prodCancel, prodPos, pipe, pipePos, pipeOpen>>

\* Variant: a producer blocked on a full pipe does not see the cancellation
Cancellable_betweenChunks == Len(pipe) < PipeCapacity

\* Cancellation unblocks the producer wherever it is
Cancellable == TRUE

\* The cancelled producer exits
producer_exit ==
    /\ prodState = "running"
    /\ prodCancel
    /\ Cancellable
    /\ prodState' = "exited"
    /\ UNCHANGED <<ioMode, ioState, ioOffset, ioError, ioRestarts, ioCall,
                   prodCancel, prodPos, pipe, pipePos, pipeOpen>>

\* Bytes a read of n returns at the logical offset
ReadLength(n) == IF ioOffset + n > MemberSize THEN MemberSize - ioOffset ELSE n

\* Variant: a failed read leaves the handle streaming
AfterFault_streaming(fault) == "streaming"

\* State of the handle after a read has met a fatal error
AfterFault(fault) == "poisoned"

\* read(handle, n): fault is the fatal error the read meets, or "none"
io_read(n, fault) ==
    /\ ioState \in {"init", "streaming", "poisoned"}
    /\ IF ioState = "poisoned"
       THEN /\ ioCall' = IoCallRec("read", n, -1, <<>>, ioError)
            /\ UNCHANGED <<ioState, ioOffset, ioError, pipe, pipePos>>
       ELSE IF fault # "none"
       THEN /\ ioState' = AfterFault(fault)
            /\ ioError' = fault
            /\ ioCall' = IoCallRec("read", n, -1, <<>>, fault)
            /\ UNCHANGED <<ioOffset, pipe, pipePos>>
       ELSE IF ioMode = "raw"
       THEN /\ ioCall' = IoCallRec("read", n, ReadLength(n),
                                   SubSeq(Member, ioOffset + 1, ioOffset + ReadLength(n)),
                                   "none")
            /\ ioState' = "streaming"
            /\ ioOffset' = ioOffset + ReadLength(n)
            /\ UNCHANGED <<ioError, pipe, pipePos>>
       ELSE /\ Len(pipe) >= ReadLength(n)
            /\ ioCall' = IoCallRec("read", n, ReadLength(n),
                                   SubSeq(pipe, 1, ReadLength(n)), "none")
            /\ pipe' = SubSeq(pipe, ReadLength(n) + 1, Len(pipe))
            /\ pipePos' = pipePos + ReadLength(n)
            /\ ioState' = "streaming"
            /\ ioOffset' = ioOffset + ReadLength(n)
            /\ UNCHANGED ioError
    /\ UNCHANGED <<ioMode, ioRestarts, prodState, prodCancel, prodPos, pipeOpen>>

\* A forward seek whose distance is at most seek-length
ShortSeek(x) == x >= ioOffset /\ x - ioOffset <= SeekLength

\* lseek(handle, x): in piped mode a short forward seek drains the pipe and
\* any other seek restarts the producer
io_lseek(x) ==
    /\ ioState \in {"init", "streaming", "poisoned"}
    /\ IF ioState = "poisoned"
       THEN /\ ioCall' = IoCallRec("lseek", x, -1, <<>>, ioError)
            /\ UNCHANGED <<ioState, ioOffset, ioRestarts, prodCancel>>
       ELSE IF ioMode = "raw"
       THEN /\ ioCall' = IoCallRec("lseek", x, x, <<>>, "none")
            /\ ioOffset' = x
            /\ UNCHANGED <<ioState, ioRestarts, prodCancel>>
       ELSE IF ShortSeek(x)
       THEN /\ ioCall' = IoCallRec("lseek", x, x, <<>>, "none")
            /\ ioOffset' = x
            /\ ioState' = IF x = ioOffset THEN ioState ELSE "draining"
            /\ UNCHANGED <<ioRestarts, prodCancel>>
       ELSE /\ ioRestarts < MaxRestarts
            /\ ioCall' = IoCallRec("lseek", x, x, <<>>, "none")
            /\ ioOffset' = x
            /\ ioState' = "restarting"
            /\ ioRestarts' = ioRestarts + 1
            /\ prodCancel' = TRUE
    /\ UNCHANGED <<ioMode, ioError, prodState, prodPos, pipe, pipePos, pipeOpen>>

\* Variant: draining stops one byte short of the target
Drained_oneShort(pos) == pos + 1 >= ioOffset

\* The consumer has discarded every byte below the target offset
Drained(pos) == pos = ioOffset

\* A draining handle discards the next byte of the pipe
io_drain ==
    /\ ioState = "draining"
    /\ IF Drained(pipePos)
       THEN /\ ioState' = "streaming"
            /\ UNCHANGED <<pipe, pipePos>>
       ELSE /\ Len(pipe) > 0
            /\ pipe' = Tail(pipe)
            /\ pipePos' = pipePos + 1
            /\ ioState' = IF Drained(pipePos + 1) THEN "streaming" ELSE "draining"
    /\ UNCHANGED <<ioMode, ioOffset, ioError, ioRestarts, ioCall,
                   prodState, prodCancel, prodPos, pipeOpen>>

\* The old producer has stopped: the pipe is emptied and a new producer is
\* spawned, which writes the member from byte 0
io_respawn ==
    /\ ioState = "restarting"
    /\ prodState = "exited"
    /\ pipe' = <<>>
    /\ pipePos' = 0
    /\ prodPos' = 0
    /\ prodState' = "running"
    /\ prodCancel' = FALSE
    /\ ioState' = "draining"
    /\ UNCHANGED <<ioMode, ioOffset, ioError, ioRestarts, ioCall, pipeOpen>>

\* release(handle): terminal; the producer of a piped handle is cancelled
io_release ==
    /\ ioState \notin {"none", "released"}
    /\ ioState' = "released"
    /\ ioCall' = IoCallRec("release", 0, 0, <<>>, "none")
    /\ prodCancel' = (ioMode = "piped")
    /\ UNCHANGED <<ioMode, ioOffset, ioError, ioRestarts, prodState, prodPos,
                   pipe, pipePos, pipeOpen>>

\* The consumer closes the pipe of a released handle once the producer has
\* stopped
io_close_pipe ==
    /\ ioState = "released"
    /\ pipeOpen
    /\ prodState # "running"
    /\ pipeOpen' = FALSE
    /\ pipe' = <<>>
    /\ UNCHANGED <<ioMode, ioState, ioOffset, ioError, ioRestarts, ioCall,
                   prodState, prodCancel, prodPos, pipePos>>

(***************************************************************************)
(* The per-archive configuration table (rarconfig.c).  The file has one    *)
(* section per archive; rarconfig_init gives every section an entry.  An   *)
(* entry is named by the table it was allocated for and its section, so an *)
(* entry of a destroyed table is a freed entry.  A thread is in one        *)
(* rarconfig function at a time; pc is its position in that function.      *)
(***************************************************************************)
NoThread == 0
NULL_ht == 0

\* Threads that call into rarconfig.c
Threads == {1, 2}

\* Properties a section can set (rarconfig.h), as members of mask
RAR_SEEK_LENGTH_PROP == "seek-length"
RAR_SAVE_EOF_PROP == "save-eof"
RAR_PASSWORD_PROP == "password"

Props == {RAR_SEEK_LENGTH_PROP, RAR_SAVE_EOF_PROP, RAR_PASSWORD_PROP}

\* The address of the password string that section 1 of the file sets
PasswordPtr == 100

\* ret of a thread that has not returned from a getter
NoReturn == -99

\* The configuration file: section 1 sets seek-length and a password,
\* section 2 sets save-eof = true
ConfigFile ==
    <<[mask |-> {RAR_SEEK_LENGTH_PROP, RAR_PASSWORD_PROP},
       seek_length |-> 7, save_eof |-> 0, password |-> PasswordPtr],
      [mask |-> {RAR_SAVE_EOF_PROP},
       seek_length |-> 0, save_eof |-> 1, password |-> NULL_ht]>>

\* Paths a getter asks for: the two sections and a path without section
ConfigPaths == {1, 2, 3}

\* Most tables rarconfig_init creates in one run
MaxTables == 2

Getters == {"rarconfig_getprop_int", "rarconfig_getprop_char",
            "rarconfig_getprop_wchar"}

\* The cases of the getter's switch(prop)
HandledProps(fn) ==
    IF fn = "rarconfig_getprop_int"
    THEN {RAR_SEEK_LENGTH_PROP, RAR_SAVE_EOF_PROP}
    ELSE {RAR_PASSWORD_PROP}

NoEntry == [table |-> NULL_ht, section |-> 0]

ThreadIdle ==
    [fn |-> "none", pc |-> "idle", path |-> 0, prop |-> "none",
     e |-> NoEntry, ret |-> NoReturn, parsed |-> 0, parser |-> FALSE]

\* No thread has called into rarconfig.c yet
CfgIdle ==
    /\ config_mutex = NoThread
    /\ ht = NULL_ht
    /\ cfgTable = {}
    /\ cfgCreated = 0
    /\ cfgThread = [t \in Threads |-> ThreadIdle]
    /\ cfgFreedRead = FALSE
    /\ aliases = <<>>
    /\ aliasCall = [fn |-> "none", file |-> NULL, alias |-> NULL, ret |-> NULL]

\* hashtable_entry_get(ht, path), guarded by "ht ?"
hashtable_entry_get(p) ==
    IF ht # NULL_ht /\ p \in cfgTable
    THEN [table |-> ht, section |-> p]
    ELSE NoEntry

\* An entry is allocated as long as its table has not been destroyed
EntryLive(e) == e # NoEntry /\ e.table = ht /\ e.section \in cfgTable

\* What "e->mask & prop ? e->field : none" evaluates to on a live entry
FieldOf(fn, section, prop) ==
    LET c == ConfigFile[section]
    IN  IF prop \notin c.mask THEN IF fn = "rarconfig_getprop_int" THEN -1 ELSE NULL_ht
        ELSE IF prop = RAR_SEEK_LENGTH_PROP THEN c.seek_length
        ELSE IF prop = RAR_SAVE_EOF_PROP THEN c.save_eof
        ELSE c.password

\* What the same expression can evaluate to on freed memory
FreedValues == {-1, 0, 1, 7, PasswordPtr}

Set(t, r) == cfgThread' = [cfgThread EXCEPT ![t] = r]

\* A thread enters a getter: pthread_mutex_lock and the table lookup
GetterLock(t, fn, p, prop) ==
    /\ cfgThread[t].pc = "idle"
    /\ config_mutex = NoThread
    /\ config_mutex' = t
    /\ Set(t, [ThreadIdle EXCEPT !.fn = fn, !.pc = "locked", !.path = p,
                                 !.prop = prop, !.e = hashtable_entry_get(p)])
    /\ UNCHANGED <<ht, cfgTable, cfgCreated, cfgFreedRead>>

\* pthread_mutex_unlock: inside the matching case, or at the end
GetterUnlock(t) ==
    LET th == cfgThread[t]
    IN  /\ th.fn \in Getters
        /\ th.pc = "locked"
        /\ config_mutex' = NoThread
        /\ IF th.e # NoEntry /\ th.prop \in HandledProps(th.fn)
           THEN Set(t, [th EXCEPT !.pc = "return e->field"])
           ELSE Set(t, [ThreadIdle EXCEPT !.fn = th.fn, !.path = th.path,
                           !.prop = th.prop,
                           !.ret = IF th.fn = "rarconfig_getprop_int"
                                   THEN -1 ELSE NULL_ht])
        /\ UNCHANGED <<ht, cfgTable, cfgCreated, cfgFreedRead>>

\* "return e->mask & prop ? e->field : none", after the unlock of the case
GetterReturn(t) ==
    LET th == cfgThread[t]
    IN  /\ th.fn \in Getters
        /\ th.pc = "return e->field"
        /\ \E v \in IF EntryLive(th.e)
                    THEN {FieldOf(th.fn, th.e.section, th.prop)}
                    ELSE FreedValues :
              Set(t, [ThreadIdle EXCEPT !.fn = th.fn, !.path = th.path,
                              !.prop = th.prop, !.e = th.e, !.ret = v])
        /\ cfgFreedRead' = (cfgFreedRead \/ ~EntryLive(th.e))
        /\ UNCHANGED <<config_mutex, ht, cfgTable, cfgCreated>>

\* rarconfig_init: pthread_mutex_lock
InitLock(t) ==
    /\ cfgThread[t].pc = "idle"
    /\ config_mutex = NoThread
    /\ config_mutex' = t
    /\ Set(t, [ThreadIdle EXCEPT !.fn = "rarconfig_init", !.pc = "locked"])
    /\ UNCHANGED <<ht, cfgTable, cfgCreated, cfgFreedRead>>

\* Variant: rarconfig_init does not look at ht
TableExists_never == FALSE

\* "if (ht)" at the start of rarconfig_init
TableExists == ht # NULL_ht

\* Variant: the return for a file that cannot be opened keeps the mutex
InitOpen_keepsLock(t, opened) ==
    LET th == cfgThread[t]
    IN  /\ th.fn = "rarconfig_init"
        /\ th.pc = "locked"
        /\ (TableExists \/ ~opened \/ cfgCreated < MaxTables)
        /\ IF TableExists \/ ~opened
           THEN /\ config_mutex' = IF TableExists THEN NoThread ELSE config_mutex
                /\ Set(t, [ThreadIdle EXCEPT !.fn = th.fn])
                /\ UNCHANGED <<ht, cfgTable, cfgCreated>>
           ELSE /\ ht' = cfgCreated + 1
                /\ cfgCreated' = cfgCreated + 1
                /\ cfgTable' = {}
                /\ Set(t, [th EXCEPT !.pc = "parse", !.parser = TRUE])
                /\ UNCHANGED config_mutex
        /\ UNCHANGED cfgFreedRead

\* rarconfig_init from "if (ht)" to hashtable_init: opened tells whether the
\* file name could be allocated and the file opened
InitOpen(t, opened) ==
    LET th == cfgThread[t]
    IN  /\ th.fn = "rarconfig_init"
        /\ th.pc = "locked"
        /\ (TableExists \/ ~opened \/ cfgCreated < MaxTables)
        /\ IF TableExists \/ ~opened
           THEN /\ config_mutex' = NoThread
                /\ Set(t, [ThreadIdle EXCEPT !.fn = th.fn])
                /\ UNCHANGED <<ht, cfgTable, cfgCreated>>
           ELSE /\ ht' = cfgCreated + 1
                /\ cfgCreated' = cfgCreated + 1
                /\ cfgTable' = {}
                /\ Set(t, [th EXCEPT !.pc = "parse", !.parser = TRUE])
                /\ UNCHANGED config_mutex
        /\ UNCHANGED cfgFreedRead

\* One round of the while (find_next_parent) loop: the next section of the
\* file gets its entry; after the last section the mutex is released
InitParse(t) ==
    LET th == cfgThread[t]
    IN  /\ th.fn = "rarconfig_init"
        /\ th.pc = "parse"
        /\ IF th.parsed < Len(ConfigFile)
           THEN /\ cfgTable' = cfgTable \cup {th.parsed + 1}
                /\ Set(t, [th EXCEPT !.parsed = th.parsed + 1])
                /\ UNCHANGED config_mutex
           ELSE /\ config_mutex' = NoThread
                /\ Set(t, [ThreadIdle EXCEPT !.fn = th.fn, !.parser = TRUE,
                                             !.parsed = th.parsed])
                /\ UNCHANGED cfgTable
        /\ UNCHANGED <<ht, cfgCreated, cfgFreedRead>>

\* One round of the same loop when alloc_entry returns NULL for the section:
\* e is not tested, so each setter called for a line of the section writes
\* through NULL (e.table is NULL_ht, e.section the section whose setters ran).
\* What the write does is undefined: the process is killed inside the
\* setter, the mutex still held, or it goes on with the next section.
InitParseNoEntry(t, killed) ==
    LET th == cfgThread[t]
        e == [table |-> NULL_ht, section |-> th.parsed + 1]
    IN  /\ th.fn = "rarconfig_init"
        /\ th.pc = "parse"
        /\ th.parsed < Len(ConfigFile)
        /\ ConfigFile[th.parsed + 1].mask # {}
        /\ Set(t, [th EXCEPT !.e = e,
                             !.pc = IF killed THEN "killed" ELSE "parse",
                             !.parsed = th.parsed + 1])
        /\ UNCHANGED <<config_mutex, ht, cfgTable, cfgCreated, cfgFreedRead>>

AliasFns == {"rarconfig_getalias", "rarconfig_setalias"}

\* A thread enters rarconfig_getalias or rarconfig_setalias:
\* pthread_mutex_lock and the table lookup
AliasLock(t, fn, p) ==
    /\ cfgThread[t].pc = "idle"
    /\ config_mutex = NoThread
    /\ config_mutex' = t
    /\ Set(t, [ThreadIdle EXCEPT !.fn = fn, !.pc = "locked", !.path = p,
                                 !.e = hashtable_entry_get(p)])
    /\ UNCHANGED <<ht, cfgTable, cfgCreated, cfgFreedRead>>

\* The loop over the aliases or __set_alias on the entry found, then
\* pthread_mutex_unlock and the return; what becomes of the alias list is
\* followed by rarconfig_getalias and rarconfig_setalias above
AliasUnlock(t) ==
    LET th == cfgThread[t]
    IN  /\ th.fn \in AliasFns
        /\ th.pc = "locked"
        /\ config_mutex' = NoThread
        /\ Set(t, [ThreadIdle EXCEPT !.fn = th.fn, !.path = th.path, !.e = th.e])
        /\ UNCHANGED <<ht, cfgTable, cfgCreated, cfgFreedRead>>

(***************************************************************************)
(* One "key = value" line of a section, as rarconfig_init reads it:        *)
(* find_next_child splits the line with sscanf, the loop of rarconfig_init *)
(* picks the setter by the key, and rarconfig_getprop_int reads the entry. *)
(* cfgLine.text is the line as fgets returns it, newline included; key,    *)
(* sep and value are the parts it was written from.                        *)
(***************************************************************************)
SaveEofKey == <<115, 97, 118, 101, 45, 101, 111, 102>>

TrueValue == <<116, 114, 117, 101>>

FalseValue == <<102, 97, 108, 115, 101>>

\* '=' alone, and with a blank before it, after it, or on both sides
EqualsSign == <<61>>

BlankEquals == <<32, 61>>

EqualsBlank == <<61, 32>>

BlankEqualsBlank == <<32, 61, 32>>

Newline == <<10>>

isspace(c) == c \in {32, 9, 10, 11, 12, 13}

tolower(c) == IF c >= 65 /\ c <= 90 THEN c + 32 ELSE c

toupper(c) == IF c >= 97 /\ c <= 122 THEN c - 32 ELSE c

Lower(s) == [k \in 1..Len(s) |-> tolower(s[k])]

Upper(s) == [k \in 1..Len(s) |-> toupper(s[k])]

\* strcasecmp(a, b): 0 when the strings are equal but for letter case
strcasecmp(a, b) == IF Lower(a) = Lower(b) THEN 0 ELSE 1

\* The index of the first byte from i on that is not white space
RECURSIVE SkipSpace(_, _)
SkipSpace(line, i) ==
    IF i <= Len(line) /\ isspace(line[i]) THEN SkipSpace(line, i + 1) ELSE i

\* The index of the first byte from i on that is in stop, or past the end
RECURSIVE ScanUntil(_, _, _)
ScanUntil(line, i, stop) ==
    IF i <= Len(line) /\ line[i] \notin stop
    THEN ScanUntil(line, i + 1, stop)
    ELSE i

\* sscanf(s, "%s", s): the first run of bytes that are not white space
FirstWord(s) ==
    LET from == SkipSpace(s, 1)
    IN  SubSeq(s, from, ScanUntil(s, from, {32, 9, 10, 11, 12, 13}) - 1)

NoChild == [found |-> FALSE, name |-> <<>>, value |-> <<>>]

\* find_next_child on one line: sscanf(line, " %[^#!=]=%[^\n]", s, v) must
\* convert both; the name is trimmed, the value is taken as scanned
find_next_child(line) ==
    LET start == SkipSpace(line, 1)
        eq == ScanUntil(line, start, {35, 33, 61})
        s == SubSeq(line, start, eq - 1)
        stop == ScanUntil(line, eq + 1, {10})
        v == SubSeq(line, eq + 1, stop - 1)
    IN  IF s # <<>> /\ eq <= Len(line) /\ line[eq] = 61 /\ v # <<>>
        THEN [found |-> TRUE, name |-> FirstWord(s), value |-> v]
        ELSE NoChild

\* A config entry as alloc_entry returns it, as far as save-eof goes
FreshEntry == [mask |-> {}, save_eof |-> 0]

\* __entry_set_save_eof(e, cnode)
entry_set_save_eof(e, value) ==
    IF strcasecmp(value, TrueValue) = 0
    THEN [mask |-> e.mask \cup {RAR_SAVE_EOF_PROP}, save_eof |-> 1]
    ELSE IF strcasecmp(value, FalseValue) = 0
    THEN [mask |-> e.mask \cup {RAR_SAVE_EOF_PROP}, save_eof |-> 0]
    ELSE e

\* The body of the loop over the lines of a section in rarconfig_init, for
\* the save-eof property
InitLine(e, line) ==
    LET cnode == find_next_child(line)
    IN  IF cnode.found /\ strcasecmp(cnode.name, SaveEofKey) = 0
        THEN entry_set_save_eof(e, cnode.value)
        ELSE e

\* rarconfig_getprop_int(path, RAR_SAVE_EOF_PROP) on the entry of path
getprop_int_save_eof(e) ==
    IF RAR_SAVE_EOF_PROP \in e.mask THEN e.save_eof ELSE -1

LineWritten(key, sep, value) ==
    [key |-> key, sep |-> sep, value |-> value,
     text |-> key \o sep \o value \o Newline]

\* No line is being read
LineIdle ==
    /\ cfgLine = LineWritten(<<>>, <<>>, <<>>)
    /\ lineEntry = FreshEntry
    /\ lineCall = [fn |-> "none", ret |-> 0]

\* rarconfig_init reads the section that holds the line
rarconfig_init_line ==
    /\ lineCall.fn = "none"
    /\ lineEntry' = InitLine(lineEntry, cfgLine.text)
    /\ lineCall' = [fn |-> "rarconfig_init", ret |-> 0]
    /\ UNCHANGED cfgLine

\* rarconfig_getprop_int(path, RAR_SAVE_EOF_PROP) after initialisation
rarconfig_getprop_int ==
    /\ lineCall.fn = "rarconfig_init"
    /\ lineCall' = [fn |-> "rarconfig_getprop_int",
                    ret |-> getprop_int_save_eof(lineEntry)]
    /\ UNCHANGED <<cfgLine, lineEntry>>

\* rarconfig_destroy: pthread_mutex_lock
DestroyLock(t) ==
    /\ cfgThread[t].pc = "idle"
    /\ config_mutex = NoThread
    /\ config_mutex' = t
    /\ Set(t, [ThreadIdle EXCEPT !.fn = "rarconfig_destroy", !.pc = "locked"])
    /\ UNCHANGED <<ht, cfgTable, cfgCreated, cfgFreedRead>>

\* rarconfig_destroy: hashtable_destroy frees every entry, then the unlock
DestroyTable(t) ==
    LET th == cfgThread[t]
    IN  /\ th.fn = "rarconfig_destroy"
        /\ th.pc = "locked"
        /\ ht' = NULL_ht
        /\ cfgTable' = {}
        /\ config_mutex' = NoThread
        /\ Set(t, [ThreadIdle EXCEPT !.fn = th.fn])
        /\ UNCHANGED <<cfgCreated, cfgFreedRead>>

(***************************************************************************)
(* Alias lines of one section (rarconfig.c).  aliases is the alias list of *)
(* the section's entry; a line that sscanf splits in two gives the strings *)
(* file and alias.                                                         *)
(***************************************************************************)
LETTER_B == 98

\* Index of the last '/' of s, 0 when there is none (strrchr)
RECURSIVE LastSlash(_, _)
LastSlash(s, i) ==
    IF i = 0 THEN 0
    ELSE IF s[i] = SLASH THEN i
    ELSE LastSlash(s, i - 1)

\* __gnu_dirname(path): the path up to its last '/', "/" when that is the
\* first byte, "." when there is none
gnu_dirname(s) ==
    LET k == LastSlash(s, Len(s))
    IN  IF k = 0 THEN <<DOT>>
        ELSE IF k = 1 THEN <<SLASH>>
        ELSE SubSeq(s, 1, k - 1)

\* __dirlevels(path): the number of __gnu_dirname steps that lead to "/"
RECURSIVE dirlevels(_)
dirlevels(s) ==
    IF s = <<SLASH>> THEN 0
    ELSE 1 + dirlevels(gnu_dirname(s))

\* Variant: only the number of directory levels is compared
check_paths_levelsOnly(a, b, strdup_ok) ==
    IF At(a, 1) # SLASH \/ At(b, 1) # SLASH THEN 1
    ELSE IF Len(a) < 2 \/ Len(b) < 2 THEN 1
    ELSE IF dirlevels(a) # dirlevels(b) THEN 1
    ELSE 0

\* __check_paths(a, b): 0 when the alias may be stored; strdup_ok tells
\* whether the two strdup calls return memory
check_paths(a, b, strdup_ok) ==
    IF At(a, 1) # SLASH \/ At(b, 1) # SLASH THEN 1
    ELSE IF Len(a) < 2 \/ Len(b) < 2 THEN 1
    ELSE IF dirlevels(a) # dirlevels(b) THEN 1
    ELSE IF ~strdup_ok THEN 1
    ELSE IF gnu_dirname(a) # gnu_dirname(b) THEN 1
    ELSE 0

\* The test __entry_set_alias makes before it stores the alias
AliasRejected(file, alias) == check_paths(file, alias, TRUE) # 0

\* __set_alias(e, file, alias), with realloc and both strdup succeeding
set_alias(list, file, alias) ==
    Append(list, [file |-> file, alias |-> alias])

\* The loop of rarconfig_getalias over aliases[0..n_aliases-1]
RECURSIVE AliasFrom(_, _, _)
AliasFrom(list, file, n) ==
    IF n > Len(list) THEN NULL
    ELSE IF list[n].file = file THEN list[n].alias
    ELSE AliasFrom(list, file, n + 1)

getalias(list, file) == AliasFrom(list, file, 1)

\* __entry_set_alias(e, cnode): parsed tells whether sscanf found both
\* strings, alloc_ok whether every allocation returned memory
entry_set_alias(file, alias, parsed, alloc_ok) ==
    /\ aliases' = IF parsed /\ alloc_ok /\ ~AliasRejected(file, alias)
                  THEN set_alias(aliases, file, alias)
                  ELSE aliases
    /\ aliasCall' = [fn |-> "__entry_set_alias",
                     file |-> IF parsed THEN file ELSE NULL,
                     alias |-> IF parsed THEN alias ELSE NULL,
                     ret |-> NULL]

\* rarconfig_setalias(path, file, alias) for the section of the entry;
\* alloc_ok tells whether realloc and both strdup calls return memory
rarconfig_setalias(file, alias, alloc_ok) ==
    /\ aliases' = IF alloc_ok THEN set_alias(aliases, file, alias) ELSE aliases
    /\ aliasCall' = [fn |-> "rarconfig_setalias", file |-> file,
                     alias |-> alias, ret |-> NULL]

\* rarconfig_getalias(path, file) for the section of the entry
rarconfig_getalias(file) ==
    /\ aliasCall' = [fn |-> "rarconfig_getalias", file |-> file,
                     alias |-> NULL, ret |-> getalias(aliases, file)]
    /\ UNCHANGED aliases

(***************************************************************************)
(* Inputs of the recursion-context specifications.  The context is one     *)
(* object and fingerprints are passed by value: the NULL-pointer guards of *)
(* the functions (which return before touching any state) are not calls    *)
(* on the context and are left out.                                        *)
(***************************************************************************)
ArchivePath == <<LETTER_A>>

FpA == Fingerprint(1, 1, 1)

\* Fingerprints that differ from FpA in exactly one field
FpHash == Fingerprint(0, 1, 1)

FpSize == Fingerprint(1, 0, 1)

FpMtime == Fingerprint(1, 1, 0)

\* --recursion-depth as given on the command line
DepthOptions ==
    {Unset, Given(0), Given(1), Given(3), Given(MAX_RECURSION_DEPTH),
     Given(MAX_RECURSION_DEPTH + 1)}

\* Largest --max-unpack-size the model configures
MaxSizeOption == 4

\* --max-unpack-size as given on the command line
SizeOptions == {Unset, Given(-1), Given(0), Given(MaxSizeOption)}

\* archive_size arguments of check_unpack_size_limit
ArchiveSizes == {OFF_T_MIN, -1, 0, 1, 3, OFF_T_MAX}

(***************************************************************************)
(* Specification of the depth guard: one archive is entered and left       *)
(* repeatedly under every --recursion-depth setting; strdup may fail.      *)
(***************************************************************************)
DepthInit ==
    /\ \E optDepth \in DepthOptions :
           recursion_context_init(optDepth, Given(1))
    /\ pushCalls = 0
    /\ uncheckedPush = FALSE
    /\ pushed = <<>>
    /\ PathIdle
    /\ DirIdle
    /\ BufEmpty
    /\ CfgIdle
    /\ FpIdle
    /\ TmpIdle
    /\ IoIdle
    /\ ListIdle
    /\ LineIdle

DepthPush ==
    /\ \E strdup_ok \in BOOLEAN :
           recursion_push_archive(FpA, ArchivePath, strdup_ok)
    /\ UNCHANGED <<optdb, pushed, pushCalls, uncheckedPush, pathVars, dirVars, bufVars, cfgVars, fpVars, tmpVars, ioVars, listVars, lineVars>>

DepthPop ==
    /\ recursion_pop_archive
    /\ UNCHANGED <<optdb, pushed, pushCalls, uncheckedPush, pathVars, dirVars, bufVars, cfgVars, fpVars, tmpVars, ioVars, listVars, lineVars>>

DepthCheckSize ==
    /\ check_unpack_size_limit(1)
    /\ UNCHANGED <<optdb, pushed, pushCalls, uncheckedPush, pathVars, dirVars, bufVars, cfgVars, fpVars, tmpVars, ioVars, listVars, lineVars>>

NextDepth == DepthPush \/ DepthPop \/ DepthCheckSize

SpecDepth == DepthInit /\ [][NextDepth]_vars

(***************************************************************************)
(* Specification of the size guard: every --max-unpack-size setting and    *)
(* every kind of archive_size, on a context of depth limit 1.              *)
(***************************************************************************)
SizeInit ==
    /\ \E optSize \in SizeOptions :
           recursion_context_init(Given(1), optSize)
    /\ pushCalls = 0
    /\ uncheckedPush = FALSE
    /\ pushed = <<>>
    /\ PathIdle
    /\ DirIdle
    /\ BufEmpty
    /\ CfgIdle
    /\ FpIdle
    /\ TmpIdle
    /\ IoIdle
    /\ ListIdle
    /\ LineIdle

SizeCheck ==
    /\ \E archive_size \in ArchiveSizes : check_unpack_size_limit(archive_size)
    /\ UNCHANGED <<optdb, pushed, pushCalls, uncheckedPush, pathVars, dirVars, bufVars, cfgVars, fpVars, tmpVars, ioVars, listVars, lineVars>>

SizePush ==
    /\ \E archive_path \in {NULL, ArchivePath}, strdup_ok \in BOOLEAN :
           recursion_push_archive(FpA, archive_path, strdup_ok)
    /\ UNCHANGED <<optdb, pushed, pushCalls, uncheckedPush, pathVars, dirVars, bufVars, cfgVars, fpVars, tmpVars, ioVars, listVars, lineVars>>

SizePop ==
    /\ recursion_pop_archive
    /\ UNCHANGED <<optdb, pushed, pushCalls, uncheckedPush, pathVars, dirVars, bufVars, cfgVars, fpVars, tmpVars, ioVars, listVars, lineVars>>

NextSize == SizeCheck \/ SizePush \/ SizePop

SpecSize == SizeInit /\ [][NextSize]_vars

\* Deepest --recursion-depth of the push/pop specification
MaxUndoDepth == 2

\* What a push may change: depth, visited[] and archive_chain[]
Stack == [depth |-> depth, visited |-> visited, archive_chain |-> archive_chain]

(***************************************************************************)
(* Specification of the stack discipline: archives are pushed, with or     *)
(* without a path and with strdup succeeding or not, and popped, in any    *)
(* order.  pushed remembers the stack as it was before each successful     *)
(* push that has not been popped yet.                                      *)
(***************************************************************************)
UndoInit ==
    /\ \E d \in 1..MaxUndoDepth :
           recursion_context_init(Given(d), Given(1))
    /\ pushCalls = 0
    /\ uncheckedPush = FALSE
    /\ pushed = <<>>
    /\ PathIdle
    /\ DirIdle
    /\ BufEmpty
    /\ CfgIdle
    /\ FpIdle
    /\ TmpIdle
    /\ IoIdle
    /\ ListIdle
    /\ LineIdle

UndoPush ==
    /\ \E fp \in {FpA, FpHash}, archive_path \in {NULL, ArchivePath},
          strdup_ok \in BOOLEAN :
           recursion_push_archive(fp, archive_path, strdup_ok)
    /\ pushed' = IF ctxCall'.ret = 0 THEN Append(pushed, Stack) ELSE pushed
    /\ UNCHANGED <<optdb, pushCalls, uncheckedPush, pathVars, dirVars, bufVars, cfgVars, fpVars, tmpVars, ioVars, listVars, lineVars>>

UndoPop ==
    /\ recursion_pop_archive
    /\ pushed' = IF pushed = <<>> THEN pushed
                 ELSE SubSeq(pushed, 1, Len(pushed) - 1)
    /\ UNCHANGED <<optdb, pushCalls, uncheckedPush, pathVars, dirVars, bufVars, cfgVars, fpVars, tmpVars, ioVars, listVars, lineVars>>

NextUndo == UndoPush \/ UndoPop

SpecUndo == UndoInit /\ [][NextUndo]_vars

\* Deepest --recursion-depth of the cycle-detection specification
MaxCycleDepth == 2

\* The fingerprints of the archives met during cycle detection; ZeroFp is
\* what compute_archive_fingerprint returns for an empty archive
CycleFps == {ZeroFp, FpA, FpHash, FpSize, FpMtime}

(***************************************************************************)
(* Specification of cycle detection: archives with any of the fingerprints *)
(* are checked, pushed and popped in any order.  uncheckedPush records     *)
(* whether the caller ever broke the contract of recursion_push_archive,   *)
(* "call after cycle check passes": a push is checked when the call just   *)
(* before it was is_cycle_detected on the same fingerprint, returning      *)
(* false.                                                                  *)
(***************************************************************************)
CycleInit ==
    /\ \E d \in 1..MaxCycleDepth :
           recursion_context_init(Given(d), Given(1))
    /\ pushCalls = 0
    /\ uncheckedPush = FALSE
    /\ pushed = <<>>
    /\ PathIdle
    /\ DirIdle
    /\ BufEmpty
    /\ CfgIdle
    /\ FpIdle
    /\ TmpIdle
    /\ IoIdle
    /\ ListIdle
    /\ LineIdle

CycleQuery ==
    /\ \E fp \in CycleFps : CycleCheck(fp)
    /\ UNCHANGED <<optdb, pushed, pushCalls, uncheckedPush, pathVars, dirVars, bufVars, cfgVars, fpVars, tmpVars, ioVars, listVars, lineVars>>

CyclePush ==
    /\ \E fp \in CycleFps, strdup_ok \in BOOLEAN :
           /\ recursion_push_archive(fp, ArchivePath, strdup_ok)
           /\ uncheckedPush' =
                  (uncheckedPush \/ ~( /\ ctxCall.fn = "is_cycle_detected"
                                        /\ ctxCall.fp = fp
                                        /\ ctxCall.ret = 0 ))
    /\ UNCHANGED <<optdb, pushed, pushCalls, pathVars, dirVars, bufVars, cfgVars, fpVars, tmpVars, ioVars, listVars, lineVars>>

CyclePop ==
    /\ recursion_pop_archive
    /\ UNCHANGED <<optdb, pushed, pushCalls, uncheckedPush, pathVars, dirVars, bufVars, cfgVars, fpVars, tmpVars, ioVars, listVars, lineVars>>

NextCycle == CycleQuery \/ CyclePush \/ CyclePop

SpecCycle == CycleInit /\ [][NextCycle]_vars

\* The archives of the nesting specification: fingerprint and path
NestedArchives ==
    { [fp |-> FpA, path |-> <<LETTER_A>>],
      [fp |-> FpHash, path |-> <<LETTER_A + 1>>],
      [fp |-> FpSize, path |-> <<LETTER_A + 2>>],
      [fp |-> FpMtime, path |-> <<LETTER_A + 3>>] }

\* Deepest --recursion-depth of the nesting specification
MaxNestDepth == 3

(***************************************************************************)
(* Specification of nested archives that may contain each other: an        *)
(* archive is entered only after is_cycle_detected has returned false for  *)
(* it, and is pushed with its own path.                                    *)
(***************************************************************************)
NestInit ==
    /\ \E d \in 1..MaxNestDepth :
           recursion_context_init(Given(d), Given(1))
    /\ pushCalls = 0
    /\ uncheckedPush = FALSE
    /\ pushed = <<>>
    /\ PathIdle
    /\ DirIdle
    /\ BufEmpty
    /\ CfgIdle
    /\ FpIdle
    /\ TmpIdle
    /\ IoIdle
    /\ ListIdle
    /\ LineIdle

NestQuery ==
    /\ \E a \in NestedArchives : CycleCheck(a.fp)
    /\ UNCHANGED <<optdb, pushed, pushCalls, uncheckedPush, pathVars, dirVars, bufVars, cfgVars, fpVars, tmpVars, ioVars, listVars, lineVars>>

NestPush ==
    /\ ctxCall.fn = "is_cycle_detected"
    /\ ctxCall.ret = 0
    /\ \E a \in NestedArchives, strdup_ok \in BOOLEAN :
           /\ a.fp = ctxCall.fp
           /\ recursion_push_archive(a.fp, a.path, strdup_ok)
    /\ UNCHANGED <<optdb, pushed, pushCalls, uncheckedPush, pathVars, dirVars, bufVars, cfgVars, fpVars, tmpVars, ioVars, listVars, lineVars>>

NestPop ==
    /\ recursion_pop_archive
    /\ UNCHANGED <<optdb, pushed, pushCalls, uncheckedPush, pathVars, dirVars, bufVars, cfgVars, fpVars, tmpVars, ioVars, listVars, lineVars>>

NextNest == NestQuery \/ NestPush \/ NestPop

SpecNest == NestInit /\ [][NextNest]_vars

\* The archives of the sibling specification; the size of an archive is
\* the size field of its fingerprint
SiblingFps == {Fingerprint(1, 1, 1), Fingerprint(2, 2, 1), Fingerprint(3, 2, 1)}

\* --recursion-depth and --max-unpack-size of the sibling specification
SiblingDepth == 3

SiblingMaxSize == 4

\* The archive on top of the stack has been pushed but its size has not
\* been checked yet
AwaitsSizeCheck ==
    ctxCall.fn = "recursion_push_archive" /\ ctxCall.ret = 0

\* The size of the archive on top of the stack has just been refused
SizeRefused ==
    ctxCall.fn = "check_unpack_size_limit" /\ ctxCall.ret # 0

(***************************************************************************)
(* Specification of sibling chains: an archive is pushed, its size is      *)
(* checked, and it is either descended into (further pushes) or left; an   *)
(* archive whose size is refused is left at once.  So every archive below  *)
(* the top of the stack has had its size admitted.                         *)
(***************************************************************************)
SiblingInit ==
    /\ recursion_context_init(Given(SiblingDepth), Given(SiblingMaxSize))
    /\ pushCalls = 0
    /\ uncheckedPush = FALSE
    /\ pushed = <<>>
    /\ PathIdle
    /\ DirIdle
    /\ BufEmpty
    /\ CfgIdle
    /\ FpIdle
    /\ TmpIdle
    /\ IoIdle
    /\ ListIdle
    /\ LineIdle

SiblingPush ==
    /\ ~AwaitsSizeCheck
    /\ ~SizeRefused
    /\ \E fp \in SiblingFps : recursion_push_archive(fp, ArchivePath, TRUE)
    /\ UNCHANGED <<optdb, pushed, pushCalls, uncheckedPush, pathVars, dirVars, bufVars, cfgVars, fpVars, tmpVars, ioVars, listVars, lineVars>>

SiblingCheck ==
    /\ AwaitsSizeCheck
    /\ check_unpack_size_limit(visited[depth - 1].size)
    /\ UNCHANGED <<optdb, pushed, pushCalls, uncheckedPush, pathVars, dirVars, bufVars, cfgVars, fpVars, tmpVars, ioVars, listVars, lineVars>>

SiblingPop ==
    /\ ~AwaitsSizeCheck
    /\ depth > 0
    /\ recursion_pop_archive
    /\ UNCHANGED <<optdb, pushed, pushCalls, uncheckedPush, pathVars, dirVars, bufVars, cfgVars, fpVars, tmpVars, ioVars, listVars, lineVars>>

NextSibling == SiblingPush \/ SiblingCheck \/ SiblingPop

SpecSibling == SiblingInit /\ [][NextSibling]_vars

(***************************************************************************)
(* Specification of context set-up: the context is initialised under every *)
(* combination of the two options and then used.                           *)
(***************************************************************************)
OptionsInit ==
    /\ \E optDepth \in DepthOptions, optSize \in SizeOptions :
           recursion_context_init(optDepth, optSize)
    /\ pushCalls = 0
    /\ uncheckedPush = FALSE
    /\ pushed = <<>>
    /\ PathIdle
    /\ DirIdle
    /\ BufEmpty
    /\ CfgIdle
    /\ FpIdle
    /\ TmpIdle
    /\ IoIdle
    /\ ListIdle
    /\ LineIdle

OptionsPush ==
    /\ recursion_push_archive(FpA, ArchivePath, TRUE)
    /\ UNCHANGED <<optdb, pushed, pushCalls, uncheckedPush, pathVars, dirVars, bufVars, cfgVars, fpVars, tmpVars, ioVars, listVars, lineVars>>

OptionsPop ==
    /\ recursion_pop_archive
    /\ UNCHANGED <<optdb, pushed, pushCalls, uncheckedPush, pathVars, dirVars, bufVars, cfgVars, fpVars, tmpVars, ioVars, listVars, lineVars>>

OptionsCheckSize ==
    /\ check_unpack_size_limit(1)
    /\ UNCHANGED <<optdb, pushed, pushCalls, uncheckedPush, pathVars, dirVars, bufVars, cfgVars, fpVars, tmpVars, ioVars, listVars, lineVars>>

NextOptions == OptionsPush \/ OptionsPop \/ OptionsCheckSize

SpecOptions == OptionsInit /\ [][NextOptions]_vars

\* Longest archive of the fingerprint specification
MaxArchiveLen == 5

\* The byte values of the archives
ArchiveBytes == {0, 1, 255}

\* All archives of length 0..n
RECURSIVE ArchivesUpTo(_)
ArchivesUpTo(n) ==
    IF n = 0 THEN {<<>>}
    ELSE LET shorter == ArchivesUpTo(n - 1)
         IN  shorter \cup {Append(a, b) : a \in {t \in shorter : Len(t) = n - 1},
                                          b \in ArchiveBytes}

\* Specification of fingerprinting: one call on an arbitrary archive
FingerprintInit ==
    /\ rar_data \in ArchivesUpTo(MaxArchiveLen)
    /\ rar_mtime \in {1, 2}
    /\ fpResult = ZeroFp
    /\ fpDone = FALSE
    /\ CtxIdle
    /\ PathIdle
    /\ DirIdle
    /\ BufEmpty
    /\ CfgIdle
    /\ TmpIdle
    /\ IoIdle
    /\ ListIdle
    /\ LineIdle

NextFingerprint ==
    /\ FingerprintCall
    /\ UNCHANGED <<ctxVars, pathVars, dirVars, bufVars, cfgVars, tmpVars, ioVars, listVars, lineVars>>

SpecFingerprint == FingerprintInit /\ [][NextFingerprint]_vars

\* Most recursion_push_archive calls made on one chain
MaxChainCalls == 12

(***************************************************************************)
(* Specification of a chain of nested archives: starting from the empty    *)
(* stack, one archive after the other is pushed; allocation succeeds.      *)
(***************************************************************************)
ChainInit ==
    /\ \E optDepth \in DepthOptions :
           recursion_context_init(optDepth, Given(1))
    /\ pushCalls = 0
    /\ uncheckedPush = FALSE
    /\ pushed = <<>>
    /\ PathIdle
    /\ DirIdle
    /\ BufEmpty
    /\ CfgIdle
    /\ FpIdle
    /\ TmpIdle
    /\ IoIdle
    /\ ListIdle
    /\ LineIdle

ChainPush ==
    /\ pushCalls < MaxChainCalls
    /\ \E fp \in {FpA, FpHash} :
           recursion_push_archive(fp, ArchivePath, TRUE)
    /\ pushCalls' = pushCalls + 1
    /\ UNCHANGED <<optdb, pushed, uncheckedPush, pathVars, dirVars, bufVars, cfgVars, fpVars, tmpVars, ioVars, listVars, lineVars>>

NextChain == ChainPush

SpecChain == ChainInit /\ [][NextChain]_vars

\* Most nodes a list of the model holds
MaxEntries == 3

NameA == <<LETTER_A>>

NameB == <<LETTER_A + 1>>

\* The child names of the directory being listed
Names == {NameA, NameB}

\* struct stat pointers handed to dir_entry_add
StatPtrs == {1, 2}

(***************************************************************************)
(* Specification of directory listing: a list is opened, entries are added *)
(* through the head or through a node returned earlier, and the list is    *)
(* closed; allocation may fail.                                            *)
(***************************************************************************)
DirInit ==
    /\ dir_list_open
    /\ CtxIdle
    /\ PathIdle
    /\ BufEmpty
    /\ CfgIdle
    /\ FpIdle
    /\ TmpIdle
    /\ IoIdle
    /\ ListIdle
    /\ LineIdle

\* A list of MaxEntries nodes does not grow: allocation fails there
DirAdd ==
    /\ \E l \in 0..Len(dirList), key \in Names, st \in StatPtrs,
          type \in {DIR_E_NRM, DIR_E_RAR}, alloc_ok \in BOOLEAN :
           /\ Len(dirList) < MaxEntries \/ ~alloc_ok
           /\ dir_entry_add(l, key, st, type, alloc_ok)
    /\ UNCHANGED <<ctxVars, pathVars, bufVars, cfgVars, fpVars, tmpVars, ioVars, listVars, lineVars>>

DirClose ==
    /\ dir_list_close
    /\ UNCHANGED <<ctxVars, pathVars, bufVars, cfgVars, fpVars, tmpVars, ioVars, listVars, lineVars>>

NextDir == DirAdd \/ DirClose

SpecDir == DirInit /\ [][NextDir]_vars

\* Most nodes a list holds when duplicate resolution is examined
MaxCloseEntries == 5

(***************************************************************************)
(* Specification of duplicate resolution: longer lists, so that a name can *)
(* be held by three nodes (a node given to dir_entry_add hides the names   *)
(* of the nodes before it); one stat pointer, allocation succeeds.         *)
(***************************************************************************)
CloseInit ==
    /\ dir_list_open
    /\ CtxIdle
    /\ PathIdle
    /\ BufEmpty
    /\ CfgIdle
    /\ FpIdle
    /\ TmpIdle
    /\ IoIdle
    /\ ListIdle
    /\ LineIdle

CloseAdd ==
    /\ Len(dirList) < MaxCloseEntries
    /\ \E l \in 0..Len(dirList), key \in Names,
          type \in {DIR_E_NRM, DIR_E_RAR} :
           dir_entry_add(l, key, 1, type, TRUE)
    /\ UNCHANGED <<ctxVars, pathVars, bufVars, cfgVars, fpVars, tmpVars, ioVars, listVars, lineVars>>

CloseList ==
    /\ dir_list_close
    /\ UNCHANGED <<ctxVars, pathVars, bufVars, cfgVars, fpVars, tmpVars, ioVars, listVars, lineVars>>

NextClose == CloseAdd \/ CloseList

SpecClose == CloseInit /\ [][NextClose]_vars

\* A second child name, longer than NameA so that its hash differs
NameAB == <<LETTER_A, LETTER_A + 1>>

\* What the nodes of the lists hold before they are copied: name string,
\* type, valid and stat pointer
SourceEntries ==
    {[str |-> NameA, type |-> DIR_E_NRM, valid |-> 1, st |-> 1],
     [str |-> NameAB, type |-> DIR_E_RAR, valid |-> 0, st |-> 2]}

RECURSIVE EntryListsOf(_)
EntryListsOf(n) ==
    IF n = 0 THEN {<<>>}
    ELSE {Append(s, e) : s \in EntryListsOf(n - 1), e \in SourceEntries}

EntryListsUpTo(n) == UNION {EntryListsOf(k) : k \in 0..n}

\* What list1 holds: 0..MaxListLen entries for NameA
List1Contents ==
    {l \in EntryListsUpTo(MaxListLen) : \A k \in 1..Len(l) : l[k].str = NameA}

\* What the next pointer of a fresh node may hold: NULL, the address of the
\* first node after the heads, or the last address of the memory
GarbagePtrs == {NoNode, List2Head + 1, MaxNodes}

\* The node at address n built by dir_entry_add for source entry e
BuiltNode(n, e, next) ==
    [state |-> "live", next |-> next, nextInit |-> TRUE,
     entry |-> [name |-> [addr |-> n, str |-> e.str], hash |-> get_hash(e.str),
                type |-> e.type, valid |-> e.valid, st |-> e.st]]

\* Memory holding list1 with the entries l1 and list2 with the entries l2
BuiltHeap(l1, l2) ==
    [n \in NodeIds |->
        IF n = List1Head
        THEN [OpenedHead EXCEPT !.next = IF Len(l1) > 0 THEN 3 ELSE NoNode]
        ELSE IF n = List2Head
        THEN [OpenedHead EXCEPT
                  !.next = IF Len(l2) > 0 THEN 3 + Len(l1) ELSE NoNode]
        ELSE IF n - 2 <= Len(l1)
        THEN BuiltNode(n, l1[n - 2],
                       IF n - 2 < Len(l1) THEN n + 1 ELSE NoNode)
        ELSE IF n - 2 - Len(l1) <= Len(l2)
        THEN BuiltNode(n, l2[n - 2 - Len(l1)],
                       IF n - 2 - Len(l1) < Len(l2) THEN n + 1 ELSE NoNode)
        ELSE UnusedNode]

(***************************************************************************)
(* Specification of list copying: two lists exist; list2 is duplicated and *)
(* appended to list1, each once, any one allocation failing or none, and   *)
(* the lists are freed.                                                    *)
(***************************************************************************)
ListInit ==
    /\ \E l1 \in List1Contents, l2 \in EntryListsUpTo(MaxListLen) :
           heap = BuiltHeap(l1, l2)
    /\ listRoot = [list1 |-> List1Head, list2 |-> List2Head, dup |-> NotCalled,
                   appended |-> FALSE]
    /\ listCall = ListCallRec("none", NoNode, 0, FALSE, FALSE)
    /\ LineIdle
    /\ CtxIdle
    /\ PathIdle
    /\ DirIdle
    /\ BufEmpty
    /\ CfgIdle
    /\ FpIdle
    /\ TmpIdle
    /\ IoIdle

ListOthers == <<ctxVars, pathVars, dirVars, bufVars, cfgVars, fpVars, tmpVars,
                ioVars, lineVars>>

\* copy = dir_list_dup(list2), on a list that has all its nodes
ListDup ==
    /\ listRoot.dup = NotCalled
    /\ IsIntact(heap, List2Head)
    /\ \E failAt \in 0..(1 + 2 * MaxListLen), garbage \in GarbagePtrs :
          LET r == dir_list_dup(heap, List2Head, failAt, garbage)
          IN  /\ heap' = r.heap
              /\ listRoot' = [listRoot EXCEPT !.dup = r.ret]
              /\ listCall' = ListCallRec("dir_list_dup", r.ret, failAt,
                                         r.uninit, r.bad)
    /\ UNCHANGED ListOthers

\* dir_list_append(list1, list2), on lists that have all their nodes
ListAppend ==
    /\ ~listRoot.appended
    /\ IsIntact(heap, List1Head)
    /\ IsIntact(heap, List2Head)
    /\ \E failAt \in 0..(2 * MaxListLen) :
          LET r == dir_list_append(heap, List1Head, List2Head, failAt)
          IN  /\ heap' = r.heap
              /\ listRoot' = [listRoot EXCEPT !.appended = TRUE]
              /\ listCall' = ListCallRec("dir_list_append", r.ret, failAt,
                                         FALSE, FALSE)
    /\ UNCHANGED ListOthers

\* dir_list_free(root); free(root) for one of the lists
ListFree ==
    /\ \E root \in {listRoot.list1, listRoot.list2, listRoot.dup} :
          /\ root \in NodeIds
          /\ heap[root].state = "live"
          /\ LET f == dir_list_free(heap, root)
             IN  /\ heap' = [f.heap EXCEPT ![root].state = "freed"]
                 /\ listCall' = ListCallRec("dir_list_free", root, 0, f.uninit,
                                            f.bad \/ f.heap[root].state # "live")
    /\ UNCHANGED listRoot
    /\ UNCHANGED ListOthers

NextList == ListDup \/ ListAppend \/ ListFree

SpecList == ListInit /\ [][NextList]_vars

(***************************************************************************)
(* Specification of the save-eof property: a section holds one save-eof    *)
(* line, written with or without blanks around '=' and with a value in any *)
(* letter case; rarconfig_init reads it and the getter is called.          *)
(***************************************************************************)
\* "yes" and "1": values other than true and false
OtherValues == {<<121, 101, 115>>, <<49>>}

\* Lower case, upper case, and first letter in upper case
LetterCases(s) == {s, Upper(s), <<toupper(s[1])>> \o SubSeq(s, 2, Len(s))}

SaveEofValues ==
    UNION {LetterCases(v) : v \in {TrueValue, FalseValue} \cup OtherValues}

SaveEofLines ==
    {LineWritten(key, sep, value) :
        key \in {SaveEofKey, Upper(SaveEofKey)},
        sep \in {EqualsSign, BlankEquals, EqualsBlank, BlankEqualsBlank},
        value \in SaveEofValues}

LineInit ==
    /\ cfgLine \in SaveEofLines
    /\ lineEntry = FreshEntry
    /\ lineCall = [fn |-> "none", ret |-> 0]
    /\ ListIdle
    /\ CtxIdle
    /\ PathIdle
    /\ DirIdle
    /\ BufEmpty
    /\ CfgIdle
    /\ FpIdle
    /\ TmpIdle
    /\ IoIdle

LineOthers == <<ctxVars, pathVars, dirVars, bufVars, cfgVars, fpVars, tmpVars,
                ioVars, listVars>>

LineInitFile == rarconfig_init_line /\ UNCHANGED LineOthers

LineGetProp == rarconfig_getprop_int /\ UNCHANGED LineOthers

NextLine == LineInitFile \/ LineGetProp

SpecLine == LineInit /\ [][NextLine]_vars

\* Longest chunk the decoder hands to the callback
MaxChunkLen == 3

\* The byte values of the extracted data
ChunkBytes == {1, 2}

\* All chunks of length 0..n
RECURSIVE ChunksUpTo(_)
ChunksUpTo(n) ==
    IF n = 0 THEN {<<>>}
    ELSE LET shorter == ChunksUpTo(n - 1)
         IN  shorter \cup {Append(c, b) : c \in {t \in shorter : Len(t) = n - 1},
                                          b \in ChunkBytes}

(***************************************************************************)
(* Specification of in-memory extraction: the decoder calls the callback   *)
(* with data chunks and with other messages; realloc may fail.             *)
(***************************************************************************)
BufInit ==
    /\ BufEmpty
    /\ CfgIdle
    /\ FpIdle
    /\ TmpIdle
    /\ IoIdle
    /\ ListIdle
    /\ LineIdle
    /\ CtxIdle
    /\ PathIdle
    /\ DirIdle

BufProcessData ==
    /\ \E chunk \in ChunksUpTo(MaxChunkLen) \cup {NULL}, realloc_ok \in BOOLEAN :
           extract_to_memory_callback(UCM_PROCESSDATA, chunk, realloc_ok)
    /\ UNCHANGED <<ctxVars, pathVars, dirVars, cfgVars, fpVars, tmpVars, ioVars, listVars, lineVars>>

BufOtherMessage ==
    /\ \E chunk \in {<<1>>, NULL} :
           extract_to_memory_callback(0, chunk, TRUE)
    /\ UNCHANGED <<ctxVars, pathVars, dirVars, cfgVars, fpVars, tmpVars, ioVars, listVars, lineVars>>

NextBuf == BufProcessData \/ BufOtherMessage

SpecBuf == BufInit /\ [][NextBuf]_vars

(***************************************************************************)
(* Specification of in-memory extraction with reuse of the buffer: as      *)
(* SpecBuf, and the owner may free the buffer at any time.                 *)
(***************************************************************************)
BufFree ==
    /\ free_extract_buffer
    /\ UNCHANGED <<ctxVars, pathVars, dirVars, cfgVars, fpVars, tmpVars, ioVars, listVars, lineVars>>

NextBufFree == BufProcessData \/ BufOtherMessage \/ BufFree

SpecBufFree == BufInit /\ [][NextBufFree]_vars

(***************************************************************************)
(* Specification of the temporary-file fallback: one call on a buffer in   *)
(* any state, with every outcome of mkstemp and write.                     *)
(***************************************************************************)
TempInit ==
    /\ bufData \in ChunksUpTo(MaxChunkLen)
    /\ bufCapacity = Len(bufData)
    /\ bufSize \in 0..Len(bufData)
    /\ bufError = 0
    /\ bufCall = BufCallRec(0, NULL, 0)
    /\ bufAccepted = SubSeq(bufData, 1, bufSize)
    /\ TmpIdle
    /\ IoIdle
    /\ ListIdle
    /\ LineIdle
    /\ CtxIdle
    /\ PathIdle
    /\ DirIdle
    /\ CfgIdle
    /\ FpIdle

TempWrite ==
    /\ tmpCall.fn = "none"
    /\ \E out_path \in BOOLEAN, mkstemp_errno \in {0, EACCES, EMFILE},
          written \in -1..bufSize :
           write_buffer_to_tempfile(out_path, mkstemp_errno, written)
    /\ UNCHANGED <<ctxVars, pathVars, dirVars, bufVars, cfgVars, fpVars, ioVars, listVars, lineVars>>

NextTemp == TempWrite

SpecTemp == TempInit /\ [][NextTemp]_vars

(***************************************************************************)
(* Specification of the configuration table under concurrent use: every    *)
(* thread calls rarconfig_init, the getters and rarconfig_destroy in any   *)
(* order, and the threads interleave at every lock, unlock and return.     *)
(***************************************************************************)
ConfigInit ==
    /\ CfgIdle
    /\ FpIdle
    /\ TmpIdle
    /\ IoIdle
    /\ ListIdle
    /\ LineIdle
    /\ CtxIdle
    /\ PathIdle
    /\ DirIdle
    /\ BufEmpty

CfgOthers == <<aliases, aliasCall, ctxVars, pathVars, dirVars, bufVars,
               fpVars, tmpVars, ioVars, listVars, lineVars>>

CfgGetterLock ==
    /\ \E t \in Threads, fn \in Getters, p \in ConfigPaths, prop \in Props :
           GetterLock(t, fn, p, prop)
    /\ UNCHANGED CfgOthers

CfgGetterUnlock ==
    /\ \E t \in Threads : GetterUnlock(t)
    /\ UNCHANGED CfgOthers

CfgGetterReturn ==
    /\ \E t \in Threads : GetterReturn(t)
    /\ UNCHANGED CfgOthers

CfgInitLock ==
    /\ \E t \in Threads : InitLock(t)
    /\ UNCHANGED CfgOthers

CfgInitOpen ==
    /\ \E t \in Threads, opened \in BOOLEAN : InitOpen(t, opened)
    /\ UNCHANGED CfgOthers

\* The configuration file exists and can be opened
CfgInitOpenExisting ==
    /\ \E t \in Threads : InitOpen(t, TRUE)
    /\ UNCHANGED CfgOthers

CfgInitParse ==
    /\ \E t \in Threads : InitParse(t)
    /\ UNCHANGED CfgOthers

CfgDestroyLock ==
    /\ \E t \in Threads : DestroyLock(t)
    /\ UNCHANGED CfgOthers

CfgDestroyTable ==
    /\ \E t \in Threads : DestroyTable(t)
    /\ UNCHANGED CfgOthers

CfgInitParseNoEntry ==
    /\ \E t \in Threads, killed \in BOOLEAN : InitParseNoEntry(t, killed)
    /\ UNCHANGED CfgOthers

NextConfig ==
    \/ CfgGetterLock
    \/ CfgGetterUnlock
    \/ CfgGetterReturn
    \/ CfgInitLock
    \/ CfgInitOpen
    \/ CfgInitParse
    \/ CfgDestroyLock
    \/ CfgDestroyTable

SpecConfig == ConfigInit /\ [][NextConfig]_vars

(***************************************************************************)
(* Specification of initialisation under memory pressure: as SpecConfig,   *)
(* and hashtable_entry_alloc may fail for any section.                     *)
(***************************************************************************)
NextInitAlloc == NextConfig \/ CfgInitParseNoEntry

SpecInitAlloc == ConfigInit /\ [][NextInitAlloc]_vars

(***************************************************************************)
(* Specification of the locking of rarconfig.c: every rarconfig_* function *)
(* is called from every thread, and a thread inside a function gets to    *)
(* run.                                                                    *)
(***************************************************************************)
\* Paths of the locking specification: a section of the file and a path
\* without section
MutexPaths == {1, 3}

CfgAliasLock ==
    /\ \E t \in Threads, fn \in AliasFns, p \in MutexPaths : AliasLock(t, fn, p)
    /\ UNCHANGED CfgOthers

CfgMutexGetterLock ==
    /\ \E t \in Threads, fn \in Getters, p \in MutexPaths, prop \in Props :
           GetterLock(t, fn, p, prop)
    /\ UNCHANGED CfgOthers

CfgAliasUnlock ==
    /\ \E t \in Threads : AliasUnlock(t)
    /\ UNCHANGED CfgOthers

NextMutex ==
    \/ CfgMutexGetterLock
    \/ CfgGetterUnlock
    \/ CfgGetterReturn
    \/ CfgAliasLock
    \/ CfgAliasUnlock
    \/ CfgInitLock
    \/ CfgInitOpen
    \/ CfgInitParse
    \/ CfgDestroyLock
    \/ CfgDestroyTable

\* The steps of a thread that is inside a function
CfgProceed ==
    \/ CfgGetterUnlock
    \/ CfgGetterReturn
    \/ CfgAliasUnlock
    \/ CfgInitOpen
    \/ CfgInitParse
    \/ CfgDestroyTable

SpecMutexFair == ConfigInit /\ [][NextMutex]_vars /\ WF_vars(CfgProceed)

(***************************************************************************)
(* Specification of first-touch parsing: the threads call rarconfig_init   *)
(* and the getters on an existing file; the table is never destroyed.      *)
(***************************************************************************)
FirstTouchInit ==
    /\ CfgIdle
    /\ FpIdle
    /\ TmpIdle
    /\ IoIdle
    /\ ListIdle
    /\ LineIdle
    /\ CtxIdle
    /\ PathIdle
    /\ DirIdle
    /\ BufEmpty

NextFirstTouch ==
    \/ CfgGetterLock
    \/ CfgGetterUnlock
    \/ CfgGetterReturn
    \/ CfgInitLock
    \/ CfgInitOpenExisting
    \/ CfgInitParse

SpecFirstTouch == FirstTouchInit /\ [][NextFirstTouch]_vars

\* Most alias lines stored for one section
MaxAliases == 1

\* The strings of the alias lines
AliasPaths ==
    { <<SLASH>>, <<SLASH, LETTER_A>>, <<SLASH, LETTER_B>>,
      <<LETTER_A, SLASH, LETTER_B>>,
      <<SLASH, LETTER_A, SLASH, LETTER_A>>, <<SLASH, LETTER_A, SLASH, LETTER_B>>,
      <<SLASH, LETTER_B, SLASH, LETTER_B>> }

(***************************************************************************)
(* Specification of alias handling: alias lines of one section are handled *)
(* in file order, and aliases are looked up.                               *)
(***************************************************************************)
AliasInit ==
    /\ CfgIdle
    /\ FpIdle
    /\ TmpIdle
    /\ IoIdle
    /\ ListIdle
    /\ LineIdle
    /\ CtxIdle
    /\ PathIdle
    /\ DirIdle
    /\ BufEmpty

AliasOthers == <<config_mutex, ht, cfgTable, cfgCreated, cfgThread,
                 cfgFreedRead, ctxVars, pathVars, dirVars, bufVars, fpVars, tmpVars, ioVars, listVars, lineVars>>

AliasLine ==
    /\ \E file \in AliasPaths, alias \in AliasPaths,
          parsed \in BOOLEAN, alloc_ok \in BOOLEAN :
           /\ \/ Len(aliases) < MaxAliases
              \/ ~parsed
              \/ ~alloc_ok
              \/ AliasRejected(file, alias)
           /\ entry_set_alias(file, alias, parsed, alloc_ok)
    /\ UNCHANGED AliasOthers

AliasLookup ==
    /\ \E file \in AliasPaths : rarconfig_getalias(file)
    /\ UNCHANGED AliasOthers

NextAlias == AliasLine \/ AliasLookup

SpecAlias == AliasInit /\ [][NextAlias]_vars

\* Specification of alias handling with the callers of rarconfig_setalias:
\* aliases come from alias lines and from rarconfig_setalias calls
AliasSet ==
    /\ \E file \in AliasPaths, alias \in AliasPaths, alloc_ok \in BOOLEAN :
           /\ Len(aliases) < MaxAliases \/ ~alloc_ok
           /\ rarconfig_setalias(file, alias, alloc_ok)
    /\ UNCHANGED AliasOthers

NextSetAlias == AliasLine \/ AliasSet \/ AliasLookup

SpecSetAlias == AliasInit /\ [][NextSetAlias]_vars

\* Specification of path sanitization: one call on an arbitrary member name
InitPath ==
    /\ PathInit
    /\ CtxIdle
    /\ DirIdle
    /\ BufEmpty
    /\ CfgIdle
    /\ FpIdle
    /\ TmpIdle
    /\ IoIdle
    /\ ListIdle
    /\ LineIdle

NextPath == SanitizeCall /\ UNCHANGED <<ctxVars, dirVars, bufVars, cfgVars, fpVars, tmpVars, ioVars, listVars, lineVars>>

SpecPath == InitPath /\ [][NextPath]_vars

(***************************************************************************)
(* Specification of one I/O handle from open to release, with its producer *)
(* and pipe.  SpecIoFair adds what the scheduler guarantees: a cancelled   *)
(* producer gets to run, and release gets to close the pipe.               *)
(***************************************************************************)
IoInit ==
    /\ IoIdle
    /\ ListIdle
    /\ LineIdle
    /\ CtxIdle
    /\ PathIdle
    /\ DirIdle
    /\ BufEmpty
    /\ CfgIdle
    /\ FpIdle
    /\ TmpIdle

IoOthers == <<ctxVars, pathVars, dirVars, bufVars, cfgVars, fpVars, tmpVars,
              listVars, lineVars>>

IoOpen == (\E mode \in {"raw", "piped"} : io_open(mode)) /\ UNCHANGED IoOthers

IoRead ==
    /\ \E n \in 1..MaxRead, fault \in Faults(ioMode) \cup {"none"} : io_read(n, fault)
    /\ UNCHANGED IoOthers

IoLseek == (\E x \in 0..MemberSize : io_lseek(x)) /\ UNCHANGED IoOthers

IoDrain == io_drain /\ UNCHANGED IoOthers

IoRespawn == io_respawn /\ UNCHANGED IoOthers

IoRelease == io_release /\ UNCHANGED IoOthers

IoClosePipe == io_close_pipe /\ UNCHANGED IoOthers

ProducerWrite == producer_write /\ UNCHANGED IoOthers

ProducerFinish == producer_finish /\ UNCHANGED IoOthers

ProducerExit == producer_exit /\ UNCHANGED IoOthers

NextIo ==
    \/ IoOpen
    \/ IoRead
    \/ IoLseek
    \/ IoDrain
    \/ IoRespawn
    \/ IoRelease
    \/ IoClosePipe
    \/ ProducerWrite
    \/ ProducerFinish
    \/ ProducerExit

SpecIo == IoInit /\ [][NextIo]_vars

SpecIoFair ==
    /\ IoInit
    /\ [][NextIo]_vars
    /\ WF_vars(ProducerExit)
    /\ WF_vars(IoClosePipe)

\* The strings sanitize_nested_path hands to strip_dotdot_components: the
\* names that pass rules 6, 1, 2 and 5, with their backslashes rewritten
StripInputs ==
    {Normalize(p) : p \in {q \in StringsUpTo(MaxPathLen) :
                              /\ Len(q) > 0
                              /\ ~is_absolute_path(q)
                              /\ ~is_windows_absolute_path(q)
                              /\ is_valid_utf8(q)}}

\* Specification of rule 3 alone: one call of strip_dotdot_components
InitStrip ==
    /\ path \in StripInputs
    /\ sanitized = NULL
    /\ pathDone = FALSE
    /\ CtxIdle
    /\ DirIdle
    /\ BufEmpty
    /\ CfgIdle
    /\ FpIdle
    /\ TmpIdle
    /\ IoIdle
    /\ ListIdle
    /\ LineIdle

StripCall ==
    /\ ~pathDone
    /\ sanitized' = strip_dotdot_components(path)
    /\ pathDone' = TRUE
    /\ UNCHANGED path
    /\ UNCHANGED <<ctxVars, dirVars, bufVars, cfgVars, fpVars, tmpVars, ioVars, listVars, lineVars>>

NextStrip == StripCall

SpecStrip == InitStrip /\ [][NextStrip]_vars

\* Longest prefix of the member names at the length limit
MaxPrefixLen == 2

\* A name of n bytes: the prefix, then the letter a up to length n
LongPath(prefix, n) ==
    [i \in 1..n |-> IF i <= Len(prefix) THEN prefix[i] ELSE LETTER_A]

\* Names one and two bytes longer than MAX_NESTED_PATH_LENGTH
LongPaths ==
    {LongPath(prefix, n) :
        prefix \in StringsUpTo(MaxPrefixLen),
        n \in (MAX_NESTED_PATH_LENGTH + 1)..(MAX_NESTED_PATH_LENGTH + 2)}

\* Specification of the length rule: one call of sanitize_nested_path on a
\* short member name or on one just above the length limit
InitLength ==
    /\ path \in StringsUpTo(MaxPathLen) \cup LongPaths
    /\ sanitized = NULL
    /\ pathDone = FALSE
    /\ CtxIdle
    /\ DirIdle
    /\ BufEmpty
    /\ CfgIdle
    /\ FpIdle
    /\ TmpIdle
    /\ IoIdle
    /\ ListIdle
    /\ LineIdle

SpecLength == InitLength /\ [][NextPath]_vars

\* Longest member name of the UTF-8 specification
MaxUtf8Len == 4

\* Bytes of the UTF-8 specification: a letter, continuation bytes and the
\* lead bytes at the edges of the two-, three- and four-byte ranges
Utf8Bytes == {97, 128, 144, 191, 192, 194, 224, 240, 244, 245}

\* All strings of length 0..n over Utf8Bytes
RECURSIVE Utf8StringsUpTo(_)
Utf8StringsUpTo(n) ==
    IF n = 0 THEN {<<>>}
    ELSE LET shorter == Utf8StringsUpTo(n - 1)
         IN  shorter \cup {Append(s, b) : s \in {t \in shorter : Len(t) = n - 1},
                                          b \in Utf8Bytes}

\* Specification of UTF-8 validation: one call of sanitize_nested_path on a
\* member name with bytes above 0x7F
InitUtf8 ==
    /\ path \in Utf8StringsUpTo(MaxUtf8Len)
    /\ sanitized = NULL
    /\ pathDone = FALSE
    /\ CtxIdle
    /\ DirIdle
    /\ BufEmpty
    /\ CfgIdle
    /\ FpIdle
    /\ TmpIdle
    /\ IoIdle
    /\ ListIdle
    /\ LineIdle

SpecUtf8 == InitUtf8 /\ [][NextPath]_vars

(***************************************************************************)
(* Properties                                                              *)
(***************************************************************************)
\* '..' is a path component of s: delimited by '/' or the ends of s
HasDotDotComponent(s) ==
    \E i \in 1..Len(s) :
        /\ At(s, i) = DOT
        /\ At(s, i + 1) = DOT
        /\ At(s, i + 2) \in {SLASH, NUL}
        /\ (i = 1 \/ s[i - 1] = SLASH)

\* C1: every accepted path has no '..' component
C1_NoDotDotComponent ==
    (pathDone /\ sanitized # NULL) => ~HasDotDotComponent(sanitized)


\* C2: an accepted path is neither POSIX-absolute nor drive-letter absolute
C2_NeverAbsolute ==
    (pathDone /\ sanitized # NULL) =>
        /\ At(sanitized, 1) # SLASH
        /\ ~( /\ isalpha(At(sanitized, 1))
              /\ At(sanitized, 2) = COLON
              /\ At(sanitized, 3) \in {SLASH, BACKSLASH} )

\* C3: 0 <= depth <= max_depth <= MAX_RECURSION_DEPTH in every state, and no
\* call writes visited[] or archive_chain[] at an index >= MAX_RECURSION_DEPTH
C3_DepthWithinLimits ==
    /\ 0 <= depth
    /\ depth <= max_depth
    /\ max_depth <= MAX_RECURSION_DEPTH
    /\ ctxCall.wrote < MAX_RECURSION_DEPTH

\* The stack is full at the absolute limit and the last slot was just written
C3_Witness ==
    /\ depth = MAX_RECURSION_DEPTH
    /\ ctxCall.fn = "recursion_push_archive"
    /\ ctxCall.wrote = MAX_RECURSION_DEPTH - 1

\* C4 as stated: total_unpacked_size <= max_unpacked_size always; a call
\* returns -EFBIG and leaves the total unchanged exactly when total +
\* archive_size > max_unpacked_size, and otherwise adds archive_size and
\* returns 0
C4_AsStated ==
    [][ctxCall'.fn = "check_unpack_size_limit" =>
          /\ total_unpacked_size' <= max_unpacked_size'
          /\ IF total_unpacked_size + ctxCall'.size > max_unpacked_size
             THEN /\ ctxCall'.ret = -EFBIG
                  /\ total_unpacked_size' = total_unpacked_size
             ELSE /\ ctxCall'.ret = 0
                  /\ total_unpacked_size' = total_unpacked_size + ctxCall'.size
       ]_vars

\* C4 (amended): total_unpacked_size <= max_unpacked_size always; for
\* archive_size >= 0 a call returns -EFBIG and leaves the total unchanged
\* exactly when total + archive_size > max_unpacked_size (as integers, no
\* wrap-around), and otherwise adds archive_size and returns 0; a negative
\* archive_size returns -EINVAL and leaves the total unchanged
C4_SizeLimit ==
    [][ctxCall'.fn = "check_unpack_size_limit" =>
          /\ total_unpacked_size' <= max_unpacked_size'
          /\ IF ctxCall'.size < 0
             THEN /\ ctxCall'.ret = -EINVAL
                  /\ total_unpacked_size' = total_unpacked_size
             ELSE IF total_unpacked_size + ctxCall'.size > max_unpacked_size
             THEN /\ ctxCall'.ret = -EFBIG
                  /\ total_unpacked_size' = total_unpacked_size
             ELSE /\ ctxCall'.ret = 0
                  /\ total_unpacked_size' = total_unpacked_size + ctxCall'.size
       ]_vars

\* A non-empty archive was admitted and the total is exactly the limit
C4_Witness ==
    /\ ctxCall.fn = "check_unpack_size_limit"
    /\ ctxCall.size > 0
    /\ ctxCall.ret = 0
    /\ total_unpacked_size = max_unpacked_size

\* fp is on the recursion stack: some entry at index 0..depth-1 equals it in
\* hash, size and mtime
OnStack(fp) ==
    \E i \in Slots :
        /\ i < depth
        /\ visited[i].hash = fp.hash
        /\ visited[i].size = fp.size
        /\ visited[i].mtime = fp.mtime

StackDistinct ==
    \A i, j \in Slots : (i < j /\ j < depth) => visited[i] # visited[j]

\* C5 as stated: whatever the caller did before each push, the fingerprints
\* at stack indices 0..depth-1 are pairwise distinct
C5_AsStated == StackDistinct

\* C5 (amended): as long as every recursion_push_archive call was made right
\* after is_cycle_detected returned false for the same fingerprint, the
\* fingerprints at stack indices 0..depth-1 are pairwise distinct
C5_DistinctWhenChecked == ~uncheckedPush => StackDistinct

\* A stack of two archives, every push preceded by a passed cycle check
C5_Witness ==
    /\ ~uncheckedPush
    /\ depth = 2
    /\ ctxCall.fn = "recursion_push_archive"
    /\ ctxCall.ret = 0

\* C6: is_cycle_detected returns true exactly when an entry at stack index
\* 0..depth-1 equals the fingerprint in hash, size and mtime; in particular
\* a fingerprint that was popped and is no longer on the stack is no match
C6_CycleIffOnStack ==
    ctxCall.fn = "is_cycle_detected" =>
        /\ (ctxCall.ret = 1) <=> OnStack(ctxCall.fp)
        /\ ctxCall.ret \in {0, 1}

\* The fingerprint popped last was looked up on a non-empty stack: no match
C6_Witness ==
    /\ ctxCall.fn = "is_cycle_detected"
    /\ ctxCall.fp = lastPopped
    /\ lastPopped # ZeroFp
    /\ depth >= 1
    /\ ctxCall.ret = 0

Min(a, b) == IF a <= b THEN a ELSE b

\* C7: of the consecutive recursion_push_archive calls made on an empty
\* stack, exactly the first max_depth succeed; every later one returns
\* -ELOOP and leaves depth at max_depth
C7_ExactlyMaxDepthPushes ==
    /\ depth = Min(pushCalls, max_depth)
    /\ pushCalls >= 1 =>
           ctxCall.ret = (IF pushCalls <= max_depth THEN 0 ELSE -ELOOP)

\* --recursion-depth=5: five archives were entered and the sixth was refused
C7_Witness ==
    /\ max_depth = DEFAULT_MAX_RECURSION_DEPTH
    /\ pushCalls = max_depth + 1
    /\ depth = max_depth
    /\ ctxCall.fn = "recursion_push_archive"
    /\ ctxCall.ret = -ELOOP

\* The nodes of the list whose entry has the given name
NodesNamed(list, name) == {k \in 1..Len(list) : list[k].name = name}

\* C8: after dir_list_close every name of the list has exactly one valid
\* entry, the one that sorts first by type (the DIR_E_NRM entry when the
\* name has one); every other entry of that name is invalid
C8_OneValidPerName ==
    dirCall.fn = "dir_list_close" =>
        \A k \in 1..Len(dirList) :
            LET same == NodesNamed(dirList, dirList[k].name)
                first == CHOOSE f \in same : \A g \in same : f <= g
            IN  /\ dirList[k].valid = (IF k = first THEN 1 ELSE 0)
                /\ dirList[first].type <= dirList[k].type

\* A closed list in which a name has a passthrough entry, kept valid, and
\* two archive entries, both marked invalid
C8_Witness ==
    /\ dirCall.fn = "dir_list_close"
    /\ \E k \in 1..(Len(dirList) - 2) :
           /\ dirList[k].name = dirList[k + 1].name
           /\ dirList[k].name = dirList[k + 2].name
           /\ dirList[k].type = DIR_E_NRM /\ dirList[k].valid = 1
           /\ dirList[k + 1].type = DIR_E_RAR /\ dirList[k + 1].valid = 0
           /\ dirList[k + 2].type = DIR_E_RAR /\ dirList[k + 2].valid = 0

\* C9: dir_entry_add on the list head with a name the list already holds
\* leaves the list as it is and returns the node that holds the name
C9_FirstWins ==
    [][( /\ dirCall'.fn = "dir_entry_add"
         /\ dirCall'.l = HeadNode
         /\ NodesNamed(dirList, dirCall'.key) # {} )
       => /\ dirList' = dirList
          /\ dirCall'.ret \in NodesNamed(dirList, dirCall'.key)
          /\ \A k \in NodesNamed(dirList, dirCall'.key) : dirCall'.ret <= k
      ]_vars

\* A name was added again with another type and stat pointer: the node of
\* the first insertion was returned, its type and stat pointer unchanged
C9_Witness ==
    /\ dirCall.fn = "dir_entry_add"
    /\ dirCall.l = HeadNode
    /\ dirCall.ret = 1
    /\ Len(dirList) = 1
    /\ dirList[1].name = dirCall.key
    /\ dirList[1].type # dirCall.type
    /\ dirList[1].st # dirCall.st

\* C10: after every callback size <= capacity <= 1 GiB and the first size
\* bytes of the buffer are the accepted chunks in call order; a data chunk
\* that does not fit below 1 GiB sets the error flag and returns -1, and a
\* callback that returns -1 copies nothing
C10_BufferHoldsAcceptedChunks ==
    [][( /\ bufSize' <= bufCapacity'
         /\ bufCapacity' <= MAX_EXTRACT_CAPACITY
         /\ Len(bufData') = bufCapacity'
         /\ SubSeq(bufData', 1, bufSize') = bufAccepted'
         /\ ( /\ bufCall'.msg = UCM_PROCESSDATA
              /\ bufCall'.chunk # NULL
              /\ bufSize + Len(bufCall'.chunk) > MAX_EXTRACT_CAPACITY )
            => (bufError' = 1 /\ bufCall'.ret = -1)
         /\ bufCall'.ret = -1
            => (bufData' = bufData /\ bufSize' = bufSize
                /\ bufCapacity' = bufCapacity) )
      ]_vars

\* The buffer is full to the cap and the next chunk was just refused
C10_Witness ==
    /\ bufSize = MAX_EXTRACT_CAPACITY
    /\ bufCapacity = MAX_EXTRACT_CAPACITY
    /\ bufAccepted = SubSeq(bufData, 1, bufSize)
    /\ bufCall.msg = UCM_PROCESSDATA
    /\ bufCall.chunk # NULL
    /\ bufCall.ret = -1
    /\ bufError = 1

\* C11: under any interleaving with rarconfig_destroy, a getter never
\* reads a field of an entry that has already been freed
C11_NeverReadsFreed == ~cfgFreedRead

C13_AsStated ==
    [][ (aliasCall'.fn = "__entry_set_alias"
         /\ aliasCall'.file # NULL
         /\ gnu_dirname(aliasCall'.file) # gnu_dirname(aliasCall'.alias))
        => (aliases' = aliases /\ getalias(aliases', aliasCall'.file) = NULL)
      ]_vars

\* C13: an alias line is stored only if file and alias are absolute, at
\* least two bytes long and have the same parent directory; a line that is
\* not stored leaves the alias list, and so every lookup, unchanged
C13_SameDirectoryOnly ==
    [][ aliasCall'.fn = "__entry_set_alias"
        => LET file == aliasCall'.file
               alias == aliasCall'.alias
               ok == /\ file # NULL
                     /\ At(file, 1) = SLASH /\ At(alias, 1) = SLASH
                     /\ Len(file) >= 2 /\ Len(alias) >= 2
                     /\ gnu_dirname(file) = gnu_dirname(alias)
           IN  /\ aliases' # aliases
                  => (ok /\ aliases' = Append(aliases,
                                              [file |-> file, alias |-> alias]))
               /\ ~ok => /\ aliases' = aliases
                         /\ \A f \in AliasPaths :
                               getalias(aliases', f) = getalias(aliases, f)
      ]_vars

\* A same-directory alias is stored and a later cross-directory alias for
\* the same file has just been rejected
C13_Witness ==
    /\ Len(aliases) = 1
    /\ aliases[1] = [file |-> <<SLASH, LETTER_A, SLASH, LETTER_A>>,
                     alias |-> <<SLASH, LETTER_A, SLASH, LETTER_B>>]
    /\ aliasCall.fn = "__entry_set_alias"
    /\ aliasCall.file = <<SLASH, LETTER_A, SLASH, LETTER_A>>
    /\ aliasCall.alias = <<SLASH, LETTER_B, SLASH, LETTER_B>>

\* The sequence of lead byte and continuation bytes that starts at s[i]
\* is an overlong encoding or decodes to a code point above U+10FFFF;
\* the scan goes on behind every well-formed sequence
RECURSIVE Utf8Defect(_, _)
Utf8Defect(s, i) ==
    LET b0 == At(s, i)
        c1 == At(s, i + 1) - 128
        c2 == At(s, i + 2) - 128
        c3 == At(s, i + 3) - 128
        IsCont(c) == c >= 0 /\ c < 64
    IN  IF b0 = NUL THEN FALSE
        ELSE IF b0 < 128 THEN Utf8Defect(s, i + 1)
        ELSE IF b0 >= 192 /\ b0 < 224 /\ IsCont(c1)
        THEN \/ (b0 - 192) * 64 + c1 < 128
             \/ Utf8Defect(s, i + 2)
        ELSE IF b0 >= 224 /\ b0 < 240 /\ IsCont(c1) /\ IsCont(c2)
        THEN \/ (b0 - 224) * 4096 + c1 * 64 + c2 < 2048
             \/ Utf8Defect(s, i + 3)
        ELSE IF b0 >= 240 /\ b0 < 248 /\ IsCont(c1) /\ IsCont(c2) /\ IsCont(c3)
        THEN \/ (b0 - 240) * 262144 + c1 * 4096 + c2 * 64 + c3 < 65536
             \/ (b0 - 240) * 262144 + c1 * 4096 + c2 * 64 + c3 > 1114111
             \/ Utf8Defect(s, i + 4)
        ELSE FALSE

\* C14: a member name that contains an overlong encoding or a sequence
\* that decodes above U+10FFFF is rejected by is_valid_utf8 and by
\* sanitize_nested_path
C14_RejectsOverlongAndBeyond ==
    (pathDone /\ Utf8Defect(path, 1)) =>
        (~is_valid_utf8(path) /\ sanitized = NULL)

\* C15: an accepted path, given to sanitize_nested_path again, is accepted
\* and returned unchanged
C15_Idempotent ==
    (pathDone /\ sanitized # NULL) =>
        sanitize_nested_path(sanitized) = sanitized

\* C16: when is_cycle_detected reports a cycle, its diagnostic lists the
\* path of every archive on the recursion stack
C16_DiagnosticListsChain ==
    (ctxCall.fn = "is_cycle_detected" /\ ctxCall.ret = 1) =>
        \A j \in 0..(depth - 1) :
            \E k \in 1..Len(CycleLog(ctxCall.fp, 0)) :
                CycleLog(ctxCall.fp, 0)[k] = archive_chain[j]

\* The sizes of the archives in visited[0..n-1], added up
RECURSIVE StackSize(_)
StackSize(n) ==
    IF n = 0 THEN 0 ELSE visited[n - 1].size + StackSize(n - 1)

\* C17: check_unpack_size_limit admits the archive on top of the stack
\* exactly when its size plus the sizes of the archives below it on the
\* stack is within the limit; archives that were popped do not count
C17_CumulativePerChain ==
    [][ ctxCall'.fn = "check_unpack_size_limit"
        => (ctxCall'.ret = 0 <=> StackSize(depth) <= max_unpacked_size)
      ]_vars

\* The nodes of the list that hold the given entry, the valid flag aside
NodesHolding(list, e) ==
    {k \in 1..Len(list) : [list[k] EXCEPT !.valid = 1] = [e EXCEPT !.valid = 1]}

\* C18: dir_list_close leaves the entries in non-decreasing (name, type)
\* order, and they are the entries the list held before, each as often as
\* before and unchanged but for its valid flag
C18_SortedPermutation ==
    [][ dirCall'.fn = "dir_list_close"
        => /\ Len(dirList') = Len(dirList)
           /\ \A k \in 1..(Len(dirList') - 1) :
                 \/ strcmp(dirList'[k].name, dirList'[k + 1].name) < 0
                 \/ /\ strcmp(dirList'[k].name, dirList'[k + 1].name) = 0
                    /\ dirList'[k].type <= dirList'[k + 1].type
           /\ \A k \in 1..Len(dirList) :
                 Cardinality(NodesHolding(dirList', dirList[k]))
                     = Cardinality(NodesHolding(dirList, dirList[k]))
      ]_vars

\* A closed list of three entries with different stat pointers, in which
\* both names and both types occur
C18_Witness ==
    /\ dirCall.fn = "dir_list_close"
    /\ Len(dirList) = 3
    /\ dirList[1].name = NameA /\ dirList[1].type = DIR_E_NRM
    /\ dirList[2].name = NameA /\ dirList[2].type = DIR_E_RAR
    /\ dirList[3].name = NameB
    /\ dirList[1].st # dirList[2].st

\* C20: recursion_context_init leaves depth 0, total 0 and an empty stack;
\* max_depth is the given --recursion-depth when it is in 1..10 and 5
\* otherwise, max_unpacked_size the given --max-unpack-size when it is
\* positive and 10 GiB otherwise; neither limit changes afterwards
C20_InitialContext ==
    /\ ctxCall.fn = "recursion_context_init"
       => /\ depth = 0
          /\ total_unpacked_size = 0
          /\ \A i \in Slots : visited[i] = ZeroFp /\ archive_chain[i] = NULL
    /\ max_depth = (IF optdb.depth.set /\ optdb.depth.val \in 1..10
                    THEN optdb.depth.val ELSE 5)
    /\ max_unpacked_size = (IF optdb.size.set /\ optdb.size.val > 0
                            THEN optdb.size.val ELSE 10)

\* The context initialised with both options out of range
C20_Witness ==
    /\ ctxCall.fn = "recursion_context_init"
    /\ optdb.depth = Given(MAX_RECURSION_DEPTH + 1)
    /\ optdb.size = Given(-1)
    /\ max_depth = DEFAULT_MAX_RECURSION_DEPTH
    /\ max_unpacked_size = DEFAULT_MAX_UNPACKED_SIZE

\* FNV-1a modulo 2^HASH_BITS, defined on the bytes from first to last
RECURSIVE Fnv1a(_)
Fnv1a(bytes) ==
    IF Len(bytes) = 0 THEN FNV_64_OFFSET_BASIS
    ELSE (Xor(Fnv1a(SubSeq(bytes, 1, Len(bytes) - 1)), bytes[Len(bytes)])
            * FNV_64_PRIME) % (2 ^ HASH_BITS)

\* The first and the last chunk of an archive: at most
\* FINGERPRINT_CHUNK_SIZE bytes each
FirstChunk(data) ==
    SubSeq(data, 1, IF Len(data) < FINGERPRINT_CHUNK_SIZE
                    THEN Len(data) ELSE FINGERPRINT_CHUNK_SIZE)

LastChunk(data) ==
    SubSeq(data, IF Len(data) < FINGERPRINT_CHUNK_SIZE
                 THEN 1 ELSE Len(data) - FINGERPRINT_CHUNK_SIZE + 1, Len(data))

\* C19 as stated: for every non-empty archive the hash is FNV-1a of the
\* bytes of H(first chunk) XOR H(last chunk)
C19_AsStated ==
    (fpDone /\ Len(rar_data) > 0) =>
        fpResult = Fingerprint(
            Fnv1a(BytesOf(Xor(Fnv1a(FirstChunk(rar_data)),
                              Fnv1a(LastChunk(rar_data))))),
            Len(rar_data), rar_mtime)

\* C19: for an archive longer than one chunk the hash is FNV-1a of the
\* bytes of H(first chunk) XOR H(last chunk); for a non-empty archive of
\* at most one chunk it is FNV-1a of the bytes of H(archive); size and
\* mtime are the arguments
C19_Fingerprint ==
    (fpDone /\ Len(rar_data) > 0) =>
        fpResult = Fingerprint(
            Fnv1a(BytesOf(IF Len(rar_data) > FINGERPRINT_CHUNK_SIZE
                          THEN Xor(Fnv1a(FirstChunk(rar_data)),
                                   Fnv1a(LastChunk(rar_data)))
                          ELSE Fnv1a(rar_data))),
            Len(rar_data), rar_mtime)

\* The fingerprint of an archive of exactly one chunk has been computed,
\* and its hash is not the hash of the bytes of zero
C19_Witness ==
    /\ fpDone
    /\ Len(rar_data) = FINGERPRINT_CHUNK_SIZE
    /\ fpResult.hash # Fnv1a(BytesOf(0))
    /\ fpResult.size = Len(rar_data)
    /\ fpResult.mtime = 2

\* C21: a callback with a message other than UCM_PROCESSDATA returns 1 and
\* leaves data, size, capacity and the error flag of the buffer unchanged
C21_OtherMessagesIgnored ==
    [][ bufCall'.msg # UCM_PROCESSDATA
        => /\ bufCall'.ret = 1
           /\ bufData' = bufData
           /\ bufSize' = bufSize
           /\ bufCapacity' = bufCapacity
           /\ bufError' = bufError
      ]_vars

\* Another message has just been answered with 1 on a buffer that holds
\* data and has its error flag set
C21_Witness ==
    /\ bufCall.msg # UCM_PROCESSDATA
    /\ bufCall.chunk # NULL
    /\ bufCall.ret = 1
    /\ bufSize > 0
    /\ bufError = 1

\* C22: after write_buffer_to_tempfile no descriptor is open; on an error
\* return no file exists (-EINVAL for invalid arguments, the errno of a
\* failed mkstemp, -EIO for a failed or short write); on success the file
\* holds exactly the size bytes of the buffer
C22_NoLeftovers ==
    tmpCall.fn = "write_buffer_to_tempfile" =>
        /\ tmpFd # "open"
        /\ tmpCall.ret # 0 => ~tmpFile.exists
        /\ tmpCall.ret = 0 =>
              (tmpFile = File(SubSeq(bufData, 1, bufSize)) /\ tmpFd = "closed")
        /\ (bufData = <<>> \/ bufSize = 0 \/ ~tmpCall.out_path) =>
              (tmpCall.ret = -EINVAL /\ tmpFd = "none")
        /\ (bufData # <<>> /\ bufSize # 0 /\ tmpCall.out_path
            /\ tmpCall.mkstemp_errno = 0 /\ tmpCall.written # bufSize) =>
              (tmpCall.ret = -EIO /\ tmpFd = "closed")

\* A short write has just been answered with -EIO
C22_Witness ==
    /\ tmpCall.fn = "write_buffer_to_tempfile"
    /\ bufSize = 3
    /\ tmpCall.written = 2
    /\ tmpCall.ret = -EIO
    /\ tmpFd = "closed"
    /\ ~tmpFile.exists

\* C23: an accepted input yields a non-empty path without a backslash whose
\* length is at most the input's and at most MAX_NESTED_PATH_LENGTH; an empty
\* input and an input longer than MAX_NESTED_PATH_LENGTH yield NULL
C23_OutputWithinInput ==
    pathDone =>
        /\ sanitized # NULL =>
              /\ Len(sanitized) > 0
              /\ \A i \in 1..Len(sanitized) : sanitized[i] # BACKSLASH
              /\ Len(sanitized) <= Len(path)
              /\ Len(sanitized) <= MAX_NESTED_PATH_LENGTH
        /\ (Len(path) = 0 \/ Len(path) > MAX_NESTED_PATH_LENGTH) => sanitized = NULL

\* A name with a backslash and a '..' component has been accepted, shorter
\* than it was given
C23_Witness ==
    /\ pathDone
    /\ \E i \in 1..Len(path) : path[i] = BACKSLASH
    /\ sanitized # NULL
    /\ Len(sanitized) < Len(path)

\* A name one byte longer than MAX_NESTED_PATH_LENGTH has been refused
C23_TooLongRefused ==
    pathDone /\ Len(path) = MAX_NESTED_PATH_LENGTH + 1 /\ sanitized = NULL

\* C24: a read that fails with a decoder, checksum or volume I/O error
\* poisons the handle; every later read on it returns the recorded error, and
\* the handle leaves the poisoned state only by release
C24_PoisonedUntilRelease ==
    [][ /\ (ioCall'.op = "read" /\ ioCall'.err # "none")
            => (ioState' = "poisoned" /\ ioError' = ioCall'.err)
        /\ ioState = "poisoned"
            => /\ ioState' \in {"poisoned", "released"}
               /\ ioError' = ioError
               /\ (ioCall' # ioCall /\ ioCall'.op = "read")
                    => (ioCall'.err = ioError /\ ioCall'.data = <<>>) ]_vars

\* A read has failed with a checksum error after data had been read, and the
\* handle is poisoned
C24_Witness ==
    /\ ioState = "poisoned"
    /\ ioError = "checksum"
    /\ ioCall.op = "read"
    /\ ioCall.err = "checksum"
    /\ ioOffset > 0

\* C25: once a piped handle is released its producer is cancelled and, under
\* fairness, exits even if it was blocked on a full pipe, after which the pipe
\* is closed; the pipe is never closed while the producer runs
C25_ProducerStopsAfterRelease ==
    /\ [](ioMode = "piped" /\ ioState = "released" => prodCancel)
    /\ (ioMode = "piped" /\ ioState = "released")
           ~> (prodState = "exited" /\ ~pipeOpen)
    /\ [][(pipeOpen /\ ~pipeOpen') => prodState = "exited"]_vars

\* The producer of a released handle has stopped with the member unfinished
\* and the pipe full, and the pipe has been closed
C25_Witness ==
    /\ ioMode = "piped"
    /\ ioState = "released"
    /\ prodState = "exited"
    /\ prodPos < MemberSize
    /\ prodPos - pipePos = PipeCapacity
    /\ ~pipeOpen

\* C26: on a piped handle a forward seek of at most seek-length drains the
\* pipe and leaves the producer alone, any other seek cancels the producer and
\* a new one is spawned that starts at byte 0; either way the next read
\* returns the bytes of the member at the target offset
C26_SeekEqualsReadDiscard ==
    /\ [][ (ioMode = "piped" /\ ioState # "poisoned"
            /\ \E x \in 0..MemberSize : io_lseek(x))
           => /\ ioOffset' = ioCall'.arg
              /\ IF ioCall'.arg >= ioOffset /\ ioCall'.arg - ioOffset <= SeekLength
                 THEN /\ ioState' \in {ioState, "draining"}
                      /\ ioRestarts' = ioRestarts
                      /\ prodCancel' = prodCancel
                 ELSE /\ ioState' = "restarting"
                      /\ ioRestarts' = ioRestarts + 1
                      /\ prodCancel' ]_vars
    /\ [][ (ioState = "restarting" /\ ioState' = "draining")
           => /\ prodState = "exited" /\ prodState' = "running"
              /\ prodPos' = 0 /\ pipePos' = 0 /\ pipe' = <<>> ]_vars
    /\ [][ (ioMode = "piped" /\ ioState # "poisoned"
            /\ \E n \in 1..MaxRead : io_read(n, "none"))
           => /\ ioCall'.data = SubSeq(Member, ioOffset + 1, ioOffset + ioCall'.ret)
              /\ ioCall'.ret = IF ioOffset + ioCall'.arg > MemberSize
                               THEN MemberSize - ioOffset ELSE ioCall'.arg
              /\ ioOffset' = ioOffset + ioCall'.ret ]_vars

\* After a restart, a read has returned the last two bytes of the member
C26_Witness ==
    /\ ioMode = "piped"
    /\ ioRestarts > 0
    /\ ioCall.op = "read"
    /\ ioCall.data = SubSeq(Member, MemberSize - 1, MemberSize)
    /\ ioOffset = MemberSize

\* C27: recursion_pop_archive undoes the most recent successful
\* recursion_push_archive: depth, the fingerprints below depth and the chain
\* entries are what they were before that push, the vacated slot is zeroed
\* and its path pointer cleared; on an empty stack nothing changes
C27_PopUndoesPush ==
    [][ recursion_pop_archive
        => IF pushed = <<>>
           THEN /\ depth = 0
                /\ UNCHANGED <<depth, max_depth, visited, archive_chain,
                               total_unpacked_size, max_unpacked_size>>
           ELSE LET before == pushed[Len(pushed)]
                IN  /\ depth' = before.depth
                    /\ \A i \in Slots : i < depth' => visited'[i] = before.visited[i]
                    /\ archive_chain' = before.archive_chain
                    /\ visited'[depth'] = ZeroFp
                    /\ archive_chain'[depth'] = NULL ]_vars

\* The second of two pushed archives has been popped: the first is still on
\* the stack with its path, and the slot above it is zeroed
C27_Witness ==
    /\ ctxCall.fn = "recursion_pop_archive"
    /\ Len(pushed) = 1
    /\ depth = 1
    /\ visited[0] = FpHash
    /\ archive_chain[0] = ArchivePath
    /\ visited[1] = ZeroFp
    /\ archive_chain[1] = NULL
    /\ lastPopped = FpA

\* C28: a recursion_push_archive that returns an error leaves depth, every
\* visited[] slot, every archive_chain[] slot and the size counters as they
\* were before the call
C28_FailedPushChangesNothing ==
    [][ ( /\ \E fp \in {FpA, FpHash}, archive_path \in {NULL, ArchivePath},
                strdup_ok \in BOOLEAN :
                    recursion_push_archive(fp, archive_path, strdup_ok)
          /\ ctxCall'.ret # 0 )
        => UNCHANGED <<depth, max_depth, visited, archive_chain,
                       total_unpacked_size, max_unpacked_size>> ]_vars

\* C29: while realloc succeeds, a chunk that brings the total of the chunks
\* received to at most MAX_EXTRACT_CAPACITY is accepted: the callback returns
\* 1 and does not set the error flag
C29_AcceptsUpToTheCap ==
    [][ ( /\ bufError = 0
          /\ \E chunk \in ChunksUpTo(MaxChunkLen) :
                /\ bufSize + Len(chunk) <= MAX_EXTRACT_CAPACITY
                /\ extract_to_memory_callback(UCM_PROCESSDATA, chunk, TRUE) )
        => (bufCall'.ret = 1 /\ bufError' = 0) ]_vars

\* The components of a path: the strings between its '/' separators
RECURSIVE ComponentsFrom(_, _, _)
ComponentsFrom(s, i, current) ==
    IF i > Len(s) THEN <<current>>
    ELSE IF s[i] = SLASH THEN <<current>> \o ComponentsFrom(s, i + 1, <<>>)
    ELSE ComponentsFrom(s, i + 1, Append(current, s[i]))

Components(s) == ComponentsFrom(s, 1, <<>>)

\* a occurs in b as a subsequence, in order
RECURSIVE IsSubsequence(_, _)
IsSubsequence(a, b) ==
    IF a = <<>> THEN TRUE
    ELSE IF b = <<>> THEN FALSE
    ELSE IF Head(a) = Head(b) THEN IsSubsequence(Tail(a), Tail(b))
    ELSE IsSubsequence(a, Tail(b))

\* The named components of a path that are not '..'
KeptComponents(s) ==
    SelectSeq(Components(s), LAMBDA c : c # <<>> /\ c # <<DOT, DOT>>)

\* C30: every component of the input of strip_dotdot_components that is not
\* exactly '..' appears unchanged and in order among the components of its
\* output
C30_OnlyWholeDotDotRemoved ==
    (pathDone /\ sanitized # NULL)
        => IsSubsequence(KeptComponents(path), Components(sanitized))

\* C31: every alias stored in the config entry, from an alias line or from
\* rarconfig_setalias, satisfies __check_paths: source and target are in the
\* same directory
C31_StoredAliasesChecked ==
    \A n \in 1..Len(aliases) :
        check_paths(aliases[n].file, aliases[n].alias, TRUE) = 0

\* C32: a thread that has returned from a rarconfig_* function does not hold
\* config_mutex, config_mutex is unlocked only by the thread that holds it,
\* and a held config_mutex is always released again: no calls deadlock on it
C32_MutexReleased ==
    /\ [](\A t \in Threads :
             /\ cfgThread[t].pc \in {"idle", "return e->field"} => config_mutex # t
             /\ cfgThread[t].pc \in {"locked", "parse"} => config_mutex = t)
    /\ [][config_mutex' # config_mutex
          => \/ /\ config_mutex = NoThread
                /\ cfgThread[config_mutex'].pc = "idle"
                /\ cfgThread'[config_mutex'].pc = "locked"
             \/ /\ config_mutex # NoThread /\ config_mutex' = NoThread
                /\ cfgThread'[config_mutex] # cfgThread[config_mutex]
                /\ \A u \in Threads \ {config_mutex} :
                       cfgThread'[u] = cfgThread[u] ]_vars
    /\ \A t \in Threads : (config_mutex = t) ~> (config_mutex = NoThread)

\* One thread has returned from rarconfig_init on a file that could not be
\* opened and the other is inside rarconfig_setalias, holding the mutex
C32_Witness ==
    /\ cfgThread[1].fn = "rarconfig_init"
    /\ cfgThread[1].pc = "idle"
    /\ ~cfgThread[1].parser
    /\ ht = NULL_ht
    /\ cfgCreated = 0
    /\ cfgThread[2].fn = "rarconfig_setalias"
    /\ cfgThread[2].pc = "locked"
    /\ config_mutex = 2

\* C33 as stated: no two entries of the list have the same name
C33_AsStated ==
    \A j, k \in 1..Len(dirList) : j # k => dirList[j].name # dirList[k].name

\* C33: dir_entry_add appends a name only if no node from the start of its
\* search on holds it: through the list head that is every node, so calls
\* given the head never add a name twice; through a node returned earlier it
\* is that node and the ones after it
C33_UniqueFromSearchStart ==
    [][ (dirCall'.fn = "dir_entry_add" /\ dirList' # dirList)
        => /\ dirList' = Append(dirList, dirList'[Len(dirList')])
           /\ dirList'[Len(dirList')].name = dirCall'.key
           /\ \A k \in 1..Len(dirList) :
                 (dirCall'.l = HeadNode \/ k >= dirCall'.l)
                     => dirList[k].name # dirCall'.key
           /\ (dirCall'.l = HeadNode /\ C33_AsStated) => C33_AsStated'
      ]_vars

\* The second name has been added through the head to a list that held the
\* first: two entries, two names
C33_Witness ==
    /\ dirCall.fn = "dir_entry_add"
    /\ dirCall.l = HeadNode
    /\ dirCall.ret = 2
    /\ Len(dirList) = 2
    /\ dirList[1].name = NameA
    /\ dirList[2].name = NameB
    /\ dirCall.key = NameB


\* C34: when an allocation fails inside dir_list_dup or dir_list_append, no
\* node with an uninitialised next pointer or a NULL name is left reachable
\* from a list or traversed by dir_list_free, no node of list2 is reachable
\* from list1, and freeing the lists never frees a node twice.
C34_FailedCopyLeavesListsSound ==
    /\ ~listCall.uninit
    /\ ~listCall.bad
    /\ (listCall.fn \in {"dir_list_dup", "dir_list_append"}
           /\ listCall.ret = NoNode /\ listCall.failAt > 0)
          => /\ \A n \in NodesOf(heap, List1Head) \cup NodesOf(heap, List2Head) :
                    heap[n].nextInit /\ heap[n].entry.name # NullName
             /\ NodesOf(heap, List1Head) \cap NodesOf(heap, List2Head) = {}

\* The bytes compute_archive_fingerprint reads: the first and the last
\* FINGERPRINT_CHUNK_SIZE bytes (all of them in a shorter archive)
SampledBytes(data) ==
    IF Len(data) <= FINGERPRINT_CHUNK_SIZE THEN <<data, <<>>>>
    ELSE <<SubSeq(data, 1, FINGERPRINT_CHUNK_SIZE),
           SubSeq(data, Len(data) - FINGERPRINT_CHUNK_SIZE + 1, Len(data))>>

\* The archives of the size of rar_data with other content
OtherArchives ==
    {d \in ArchivesUpTo(MaxArchiveLen) : Len(d) = Len(rar_data) /\ d # rar_data}

\* C35 as stated: two archives of equal size and mtime whose bytes differ
\* anywhere never receive equal fingerprints.
C35_AsStated ==
    fpDone => \A d \in OtherArchives :
                  compute_archive_fingerprint(d, rar_mtime) # fpResult

\* C35: two archives of equal size and mtime whose first and last
\* FINGERPRINT_CHUNK_SIZE bytes agree receive equal fingerprints, whatever
\* the bytes between them are.
C35_SampledBytesDecide ==
    fpDone => \A d \in OtherArchives :
                  SampledBytes(d) = SampledBytes(rar_data)
                      => compute_archive_fingerprint(d, rar_mtime) = fpResult

\* A fingerprint was computed for an archive that has a byte outside both
\* chunks, and an archive differing there exists
C35_Witness ==
    /\ fpDone
    /\ Len(rar_data) > 2 * FINGERPRINT_CHUNK_SIZE
    /\ \E d \in OtherArchives : SampledBytes(d) = SampledBytes(rar_data)

\* C36: once the error flag of the buffer is set, every UCM_PROCESSDATA
\* callback returns -1 and leaves data, size and capacity unchanged; the flag
\* stays set until free_extract_buffer, which leaves data NULL and size,
\* capacity and error 0.
C36_ErrorSticksUntilFree ==
    [][/\ (bufError # 0 /\ BufProcessData)
            => /\ bufCall'.ret = -1
               /\ UNCHANGED <<bufData, bufSize, bufCapacity, bufError>>
       /\ (bufError # 0 /\ bufError' = 0) => BufFree
       /\ BufFree => /\ bufData' = <<>>
                     /\ bufSize' = 0
                     /\ bufCapacity' = 0
                     /\ bufError' = 0]_vars

\* A buffer that holds data and has its error flag set was handed a NULL
\* chunk and returned -1 (without the flag a NULL chunk returns 1)
C36_Witness ==
    /\ bufError = 1
    /\ bufSize > 0
    /\ bufCall = BufCallRec(UCM_PROCESSDATA, NULL, -1)

\* C37: if alloc_entry returns NULL for a section during rarconfig_init, no
\* property setter is applied to the missing entry, and rarconfig_init is
\* not left inside the loop with config_mutex held.
C37_MissingEntryNotWritten ==
    \A t \in Threads :
        cfgThread[t].fn = "rarconfig_init"
            => /\ ~(cfgThread[t].e.table = NULL_ht /\ cfgThread[t].e.section # 0)
               /\ cfgThread[t].pc # "killed"

\* The entries of the list from node n on, in order
RECURSIVE EntriesFrom(_, _)
EntriesFrom(h, n) ==
    IF n \notin NodeIds THEN <<>>
    ELSE <<h[n].entry>> \o EntriesFrom(h, h[n].next)

\* An entry without the address of its name string
Content(e) == [e EXCEPT !.name = e.name.str]

ContentsOf(h, root) ==
    LET es == EntriesFrom(h, h[root].next)
    IN  [k \in 1..Len(es) |-> Content(es[k])]

NameAddrsOf(h, root) == {h[n].entry.name.addr : n \in NodesOf(h, root)}

\* C38: dir_list_dup returns a new list whose entries equal the source's in
\* order (name, hash, type, valid, stat pointer), with its own name strings
\* and no node shared with the source, and leaves the source list unchanged.
C38_DupIsDeepCopy ==
    [][(ListDup /\ listCall'.ret # NoNode)
          => LET copy == listCall'.ret
             IN  /\ ContentsOf(heap', copy) = ContentsOf(heap, List2Head)
                 /\ heap'[copy].state = "live"
                 /\ heap[copy].state = "unused"
                 /\ \A n \in NodesOf(heap', copy) :
                        heap'[n].state = "live" /\ heap[n].state = "unused"
                 /\ NullName.addr \notin NameAddrsOf(heap', copy)
                 /\ NameAddrsOf(heap', copy) \cap NameAddrsOf(heap, List2Head) = {}
                 /\ NodesOf(heap', copy) \cap NodesOf(heap', List2Head) = {}
                 /\ \A n \in NodeIds : heap[n].state # "unused" => heap'[n] = heap[n]]_vars

\* dir_list_dup has returned the copy of a list of MaxListLen entries, and
\* both lists are in memory
C38_Witness ==
    /\ listCall.fn = "dir_list_dup"
    /\ listCall.ret \in NodeIds
    /\ Cardinality(NodesOf(heap, List2Head)) = MaxListLen
    /\ Cardinality(NodesOf(heap, listCall.ret)) = MaxListLen
    /\ IsIntact(heap, List2Head)

\* A sorts after B in the order of the listing: by name, then by type
OutOfOrder(A, B) ==
    \/ strcmp(A.name, B.name) > 0
    \/ strcmp(A.name, B.name) = 0 /\ A.type > B.type

\* The number of out-of-order pairs of a list
Inversions(list) ==
    Cardinality({p \in (1..Len(list)) \X (1..Len(list)) :
                    p[1] < p[2] /\ OutOfOrder(list[p[1]], list[p[2]])})

\* The passes the do-while loop of dir_list_close makes on a list, counted
\* as long as fuel lasts
RECURSIVE PassCount(_, _)
PassCount(list, fuel) ==
    LET pass == BubblePass(list, 1, 0)
    IN  IF pass.n # 0 /\ fuel > 0 THEN 1 + PassCount(pass.list, fuel - 1) ELSE 1

\* Every pass of the loop removes one out-of-order pair with each swap
RECURSIVE SwapsRemoveInversions(_, _)
SwapsRemoveInversions(list, fuel) ==
    LET pass == BubblePass(list, 1, 0)
    IN  /\ Inversions(pass.list) = Inversions(list) - pass.n
        /\ (pass.n # 0 /\ fuel > 0) => SwapsRemoveInversions(pass.list, fuel - 1)

\* C39: dir_list_close terminates on every finite list: every swap of a pass
\* removes an out-of-order pair and a pass without swap ends the loop, so the
\* loop makes at most as many passes as the list has out-of-order pairs,
\* plus one.
C39_PassesBoundedByInversions ==
    [][(CloseList /\ Len(dirList) > 0)
          => /\ SwapsRemoveInversions(dirList, Inversions(dirList) + 1)
             /\ PassCount(dirList, Inversions(dirList) + 1)
                    <= Inversions(dirList) + 1
             /\ Inversions(dirList') = 0]_vars

\* A list of MaxCloseEntries nodes holding both names and both entry types
\* has been closed
C39_Witness ==
    /\ dirCall.fn = "dir_list_close"
    /\ Len(dirList) = MaxCloseEntries
    /\ {dirList[k].name : k \in 1..Len(dirList)} = Names
    /\ {dirList[k].type : k \in 1..Len(dirList)} = {DIR_E_NRM, DIR_E_RAR}

\* What the line says the property is: 1 for true, 0 for false in any
\* letter case, -1 (unset) for any other value
SaveEofWritten(value) ==
    IF Lower(value) = TrueValue THEN 1
    ELSE IF Lower(value) = FalseValue THEN 0
    ELSE -1

\* C40: a section line "save-eof = true" or "save-eof = false", in any letter
\* case and with blanks around '=', makes rarconfig_getprop_int(path,
\* RAR_SAVE_EOF_PROP) return 1 or 0; any other value leaves the property
\* unset and the getter returns -1.
C40_SaveEofReadBack ==
    (lineCall.fn = "rarconfig_getprop_int" /\ cfgLine.sep = BlankEqualsBlank)
        => lineCall.ret = SaveEofWritten(cfgLine.value)

====
